---- MODULE Spec2Model ----
(***************************************************************************)
(* Orbit deployment scripts: deploy-orbit.ts (the node-config variant),    *)
(* check-balance, parse-deployment and verify-contracts, modelled as       *)
(* script runs over a shared filesystem (deployments/, config/) and a      *)
(* parent chain holding the receipts of the transactions sent.             *)
(*                                                                         *)
(* One run is active at a time; pc is the position of main() in the        *)
(* running script, calls the network / filesystem calls made so far in     *)
(* that run, out the messages printed, exitCode the process exit status.   *)
(***************************************************************************)
EXTENDS Integers, Sequences, FiniteSets, TLC

VARIABLES
  files,         \* deployments/: <<chainId, stamp>> -> DeploymentInfo record
  configs,       \* config/: <<kind, chainId>> -> written node config
  chain,         \* parent chain: transaction hash -> receipt
  script,        \* the running script: "none", "deploy", "balance", "parse", "verify"
  pc,            \* position inside main()
  env,           \* process.env of the run
  calls,         \* network and filesystem calls issued by the run, in order
  out,           \* messages printed by the run
  exitCode,      \* process exit status (-1 while running)
  balance,       \* deployer balance read by the run (-1 before)
  txHash,        \* hash returned by sendTransaction (0 before)
  receipt,       \* receipt obtained by the run
  coreContracts, \* result of the log scan
  decodedEvent,  \* parse-deployment: the decoded RollupCreated event
  filename,      \* deploy-orbit: the deployment file written
  latestFile,    \* file picked by the "most recent deployment file" lookup
  deployment,    \* record read from latestFile
  verifyIdx,     \* verify-contracts: contracts handled so far
  requests,      \* verify-contracts: requests and log lines of the last verifyContract call
  argv,          \* generate-docker-compose: process.argv.slice(2)
  compose        \* working directory: output path -> compose descriptor written

vars == <<files, configs, chain, script, pc, env, calls, out, exitCode,
          balance, txHash, receipt, coreContracts, decodedEvent, filename,
          latestFile, deployment, verifyIdx, requests, argv, compose>>

(***************************************************************************)
(* Bounds of the model.                                                    *)
(***************************************************************************)
MaxLogs == 1      \* logs on the modelled chain (all receipts together)
MaxTick == 1      \* distinct values of Date.now() minus one
MaxBalance == 5   \* largest deployer balance, in tenths of a native unit

None == "none"       \* no script, no message
Unset == "unset"     \* an environment variable that is not set
Null == <<>>         \* a local holding no object yet
IsNull(x) == DOMAIN x = {}

(***************************************************************************)
(* Environment values.                                                     *)
(***************************************************************************)
ChainIdStrings == {"100", "200"}
Keys == {"k1", "k2"}

\* Date.now() values: all of one width, as millisecond stamps are.
Stamps == {10 + i : i \in 0..MaxTick}

\* Balances in tenths of a native unit; parseEther('0.5') is 5 tenths.
MIN_BALANCE == 5
Balances == 0..MaxBalance

Range(s) == {s[i] : i \in DOMAIN s}

EmptyFn == [x \in {} |-> x]

(***************************************************************************)
(* Receipt logs and the RollupCreated event.                               *)
(* A log is [topics, data]; topics[1] is the event selector, the further   *)
(* topics are the indexed arguments, data the non-indexed words.           *)
(***************************************************************************)
RollupCreatedTopic == "RollupCreated"

\* ROLLUP_CREATED_EVENT_ABI: the event's inputs, in order; the first two indexed.
IndexedInputs == <<"rollupAddress", "nativeToken">>
DataInputs == <<"inboxAddress", "outbox", "rollupEventInbox", "challengeManager",
                "adminProxy", "sequencerInbox", "bridge", "upgradeExecutor",
                "validatorWalletCreator">>
EventInputs == IndexedInputs \o DataInputs

\* '0x0000000000000000000000000000000000000000'
ZeroAddress == 0

\* The RollupCreated log of rollup v: its i-th input is the address v*100+i,
\* but for the native token, which is that of the deployment (the zero address).
RollupCreatedLog(v) ==
  [topics |-> <<RollupCreatedTopic>> \o
                [i \in 1..Len(IndexedInputs) |->
                   IF IndexedInputs[i] = "nativeToken" THEN ZeroAddress ELSE v * 100 + i],
   data   |-> [i \in 1..Len(DataInputs) |-> v * 100 + Len(IndexedInputs) + i]]

\* A log of another event, and a log with the right selector whose data is cut short.
UnrelatedLog == [topics |-> <<"Transfer", 7, 8>>, data |-> <<9>>]
TruncatedLog ==
  [topics |-> <<RollupCreatedTopic, 301, 302>>,
   data   |-> [i \in 1..(Len(DataInputs) - 1) |-> 302 + i]]

\* The logs transaction h can emit: the contracts a RollupCreator call deploys
\* are its own, so its RollupCreated log is RollupCreatedLog(h).
LogKinds(h) == {UnrelatedLog, TruncatedLog, RollupCreatedLog(h)}

SeqsUpTo(S, n) == UNION {[1..k -> S] : k \in 0..n}

\* Receipts: a reverted transaction carries no logs.
Receipts(h) ==
  {[status |-> "success", logs |-> l] : l \in SeqsUpTo(LogKinds(h), MaxLogs)}
    \cup {[status |-> "reverted", logs |-> <<>>]}

DecodeFailed == [eventName |-> "error"]

\* A lenient decoder: short data is read as zero words.
decodeEventLog_mut(log) ==
  IF Len(log.topics) = 0 THEN DecodeFailed
  ELSE IF log.topics[1] # RollupCreatedTopic THEN DecodeFailed
  ELSE IF Len(log.topics) < 1 + Len(IndexedInputs) THEN DecodeFailed
  ELSE [eventName |-> "RollupCreated",
        args |-> [n \in Range(EventInputs) |->
                    LET i == CHOOSE j \in 1..Len(EventInputs) : EventInputs[j] = n
                    IN  IF i <= Len(IndexedInputs) THEN log.topics[1 + i]
                        ELSE IF i - Len(IndexedInputs) <= Len(log.data)
                             THEN log.data[i - Len(IndexedInputs)]
                        ELSE 0]]

\* viem decodeEventLog with the one-event ABI, strict: throws (DecodeFailed) on
\* empty topics, on a foreign selector, on a missing indexed topic, on short data.
decodeEventLog(log) ==
  IF Len(log.topics) = 0 THEN DecodeFailed
  ELSE IF log.topics[1] # RollupCreatedTopic THEN DecodeFailed
  ELSE IF Len(log.topics) < 1 + Len(IndexedInputs) THEN DecodeFailed
  ELSE IF Len(log.data) < Len(DataInputs) THEN DecodeFailed
  ELSE [eventName |-> "RollupCreated",
        args |-> [n \in Range(EventInputs) |->
                    LET i == CHOOSE j \in 1..Len(EventInputs) : EventInputs[j] = n
                    IN  IF i <= Len(IndexedInputs) THEN log.topics[1 + i]
                        ELSE log.data[i - Len(IndexedInputs)]]]

Decodes(log) == decodeEventLog(log).eventName = "RollupCreated"

\* parse-deployment's scan: for (const log of receipt.logs) { try { decode;
\* accept and break } catch { continue } }. The index of the accepted log, 0 if none.
RECURSIVE ParseScan(_, _)
ParseScan(logs, i) ==
  IF i > Len(logs) THEN 0
  ELSE IF Decodes(logs[i]) THEN i
  ELSE ParseScan(logs, i + 1)

\* A mapping with the inbox and outbox roles exchanged.
ParseContracts_mut(args) ==
  [rollup |-> args.rollupAddress,
   inbox |-> args.outbox,
   outbox |-> args.inboxAddress,
   adminProxy |-> args.adminProxy,
   sequencerInbox |-> args.sequencerInbox,
   bridge |-> args.bridge,
   validatorWalletCreator |-> args.validatorWalletCreator]

\* parse-deployment: deployment.contracts as built from the decoded args.
ParseContracts(args) ==
  [rollup |-> args.rollupAddress,
   inbox |-> args.inboxAddress,
   outbox |-> args.outbox,
   adminProxy |-> args.adminProxy,
   sequencerInbox |-> args.sequencerInbox,
   bridge |-> args.bridge,
   validatorWalletCreator |-> args.validatorWalletCreator]

EmptyContracts == EmptyFn

\* The SDK's createRollupPrepareTransactionReceipt(receipt).getCoreContracts():
\* the arguments of the transaction's RollupCreated log, rollupAddress and
\* inboxAddress renamed rollup and inbox, plus the receipt's block number.
GetCoreContracts(rcpt, blockNumber) ==
  LET args == decodeEventLog(rcpt.logs[ParseScan(rcpt.logs, 1)]).args
      rest == Range(EventInputs) \ {"rollupAddress", "inboxAddress"}
      keys == rest \cup {"rollup", "inbox", "deployedAtBlockNumber"}
  IN  [k \in keys |->
         IF k = "rollup" THEN args.rollupAddress
         ELSE IF k = "inbox" THEN args.inboxAddress
         ELSE IF k = "deployedAtBlockNumber" THEN blockNumber
         ELSE args[k]]

\* deploy-orbit's scan: as parse-deployment's, but a log that decodes brings
\* an awaited re-fetch of the receipt and the SDK call, inside the try.
\* The loop from log i on, up to that await: the index of the next log that
\* decodes, 0 when the loop runs out.
RECURSIVE NextDecodable(_, _)
NextDecodable(logs, i) ==
  IF i > Len(logs) THEN 0
  ELSE IF Decodes(logs[i]) THEN i
  ELSE NextDecodable(logs, i + 1)

\* The index of the k-th log that decodes, from log i on.
RECURSIVE NthDecodable(_, _, _)
NthDecodable(logs, i, k) ==
  LET j == NextDecodable(logs, i)
  IN  IF j = 0 \/ k <= 1 THEN j ELSE NthDecodable(logs, j + 1, k - 1)

\* The re-fetches a run has issued.
Fetches(c) == Cardinality({i \in DOMAIN c : c[i] = "getTransactionReceipt"})

(***************************************************************************)
(* The deployments/ directory.                                             *)
(***************************************************************************)
RECURSIVE Digits(_)
\* String(n): the character codes of n in decimal.
Digits(n) == IF n < 10 THEN <<48 + n>> ELSE Digits(n \div 10) \o <<48 + (n % 10)>>

\* `deployment-${chainId}-${Date.now()}.json`, as head, stem and tail.
FileName(chainId, stamp) ==
  [head |-> "deployment-", stem |-> Digits(chainId) \o <<45>> \o Digits(stamp),
   tail |-> ".json"]

\* Other entries of the directory.
StrayFiles ==
  {[head |-> ".gitkeep", stem |-> <<>>, tail |-> ""],
   [head |-> "deployment-", stem |-> Digits(200) \o <<45>> \o Digits(99),
    tail |-> ".json.bak"]}

readdirSync(fs) == StrayFiles \cup {FileName(k[1], k[2]) : k \in DOMAIN fs}

\* f.startsWith('deployment-') && f.endsWith('.json')
IsDeploymentFile(f) == f.head = "deployment-" /\ f.tail = ".json"

\* The characters that order two names passing the filter: the stem, then the
\* '.' of the tail.
SortKey(f) == f.stem \o <<46>>

\* Array.prototype.sort's default order: by UTF-16 code units.
RECURSIVE LexLess(_, _)
LexLess(a, b) ==
  IF Len(b) = 0 THEN FALSE
  ELSE IF Len(a) = 0 THEN TRUE
  ELSE IF a[1] # b[1] THEN a[1] < b[1]
  ELSE LexLess(Tail(a), Tail(b))

\* S.sort(): the names of S in ascending order.
Sort(S) ==
  CHOOSE s \in [1..Cardinality(S) -> S] :
    /\ Range(s) = S
    /\ \A i \in 1..(Len(s) - 1) : LexLess(SortKey(s[i]), SortKey(s[i + 1]))

Reverse(s) == [i \in 1..Len(s) |-> s[Len(s) + 1 - i]]

\* readdirSync('deployments').filter(...).sort().reverse()
DeploymentFiles(fs) == Reverse(Sort({f \in readdirSync(fs) : IsDeploymentFile(f)}))

\* The key of the record stored under a name.
KeyOf(fs, name) == CHOOSE k \in DOMAIN fs : FileName(k[1], k[2]) = name

(***************************************************************************)
(* Runs.                                                                   *)
(***************************************************************************)
NoEnv ==
  [PRIVATE_KEY |-> Unset, VALIDATOR_PRIVATE_KEY |-> Unset,
   BATCH_POSTER_PRIVATE_KEY |-> Unset, PARENT_CHAIN_RPC |-> Unset,
   WASM_ROOT |-> Unset, ETHERSCAN_API_KEY |-> Unset, CHAIN_ID |-> Unset,
   PARENT_CHAIN_ID |-> Unset, VALIDATOR_ADDRESSES |-> Unset,
   BATCH_POSTER_ADDRESS |-> Unset,
   DA_PROVIDER_ENABLE |-> Unset, DA_PROVIDER_URL |-> Unset,
   DA_PROVIDER_RETRIES |-> Unset, DA_PROVIDER_RETRY_ERRORS |-> Unset,
   DA_PROVIDER_ARG_LOG_LIMIT |-> Unset, DA_PROVIDER_WS_MESSAGE_SIZE_LIMIT |-> Unset]

Idle == script = None \/ pc = "done"

\* A fresh process: nothing read, nothing called, nothing printed.
Begin(e) ==
  /\ Idle
  /\ pc' = "validate"
  /\ env' = e
  /\ calls' = <<>>
  /\ out' = {}
  /\ exitCode' = -1
  /\ balance' = -1
  /\ txHash' = 0
  /\ receipt' = Null
  /\ coreContracts' = Null
  /\ decodedEvent' = Null
  /\ filename' = Null
  /\ latestFile' = Null
  /\ deployment' = Null
  /\ verifyIdx' = 0
  /\ requests' = <<>>
  /\ UNCHANGED <<files, configs, chain>>

\* process.exit(code), or the event loop draining after main() settled.
Exit(code, msgs) ==
  /\ pc' = "done"
  /\ exitCode' = code
  /\ out' = out \cup msgs

Goto(next, msgs) ==
  /\ pc' = next
  /\ out' = out \cup msgs
  /\ UNCHANGED exitCode

privateKeyToAddress(k) == <<"address", k>>

Init ==
  /\ files = EmptyFn
  /\ configs = EmptyFn
  /\ chain = EmptyFn
  /\ script = None
  /\ pc = "done"
  /\ env = NoEnv
  /\ calls = <<>>
  /\ out = {}
  /\ exitCode = -1
  /\ balance = -1
  /\ txHash = 0
  /\ receipt = Null
  /\ coreContracts = Null
  /\ decodedEvent = Null
  /\ filename = Null
  /\ latestFile = Null
  /\ deployment = Null
  /\ verifyIdx = 0
  /\ requests = <<>>
  /\ argv = <<>>
  /\ compose = EmptyFn

(***************************************************************************)
(* check-balance.                                                          *)
(***************************************************************************)
StartBalance ==
  /\ UNCHANGED <<argv, compose>>
  /\ script' = "balance"
  /\ \E pk \in {Unset, "", "k1"}, rpc \in {Unset, "", "rpc"} :
       Begin([NoEnv EXCEPT !.PRIVATE_KEY = pk, !.PARENT_CHAIN_RPC = rpc])

\* main().catch(console.error): the error is printed and the process ends
\* normally, with status 0.
BalanceCatchExit == 0

\* !process.env.PRIVATE_KEY || !process.env.PARENT_CHAIN_RPC: a variable that
\* is unset or empty.
BalanceValidate ==
  /\ UNCHANGED <<argv, compose>>
  /\ script = "balance" /\ pc = "validate"
  /\ IF env.PRIVATE_KEY \in {Unset, ""} \/ env.PARENT_CHAIN_RPC \in {Unset, ""}
     THEN Exit(BalanceCatchExit, {"PRIVATE_KEY and PARENT_CHAIN_RPC must be set in .env"})
     ELSE Goto("getBalance", {})
  /\ UNCHANGED <<files, configs, chain, script, env, calls, balance, txHash,
                 receipt, coreContracts, decodedEvent, filename, latestFile, deployment,
                 verifyIdx, requests>>

\* getBalance answers with a balance, or rejects and main().catch prints
\* the error.
BalanceCheck ==
  /\ UNCHANGED <<argv, compose>>
  /\ script = "balance" /\ pc = "getBalance"
  /\ calls' = Append(calls, "getBalance")
  /\ \/ \E b \in Balances :
          /\ balance' = b
          /\ Exit(0, IF b < MIN_BALANCE THEN {"Low balance"}
                     ELSE {"Sufficient balance"})
     \/ /\ UNCHANGED balance
        /\ Exit(BalanceCatchExit, {"getBalance threw"})
  /\ UNCHANGED <<files, configs, chain, script, env, txHash, receipt,
                 coreContracts, decodedEvent, filename, latestFile, deployment, verifyIdx,
                 requests>>

(***************************************************************************)
(* deploy-orbit.                                                           *)
(***************************************************************************)
\* The hash of the next transaction the deployer's wallet gets mined: 1, 2, ...
NextTxHash == Cardinality(DOMAIN chain) + 1

StartDeploy ==
  /\ UNCHANGED <<argv, compose>>
  /\ script' = "deploy"
  /\ NextTxHash \in {1, 2}
  /\ \/ \E pk \in {Unset, "k1"}, vpk \in Keys \cup {Unset}, rpc \in {Unset, "rpc"},
           wasm \in {Unset, "0xroot"}, c \in ChainIdStrings \cup {Unset} :
          Begin([NoEnv EXCEPT !.PRIVATE_KEY = pk, !.VALIDATOR_PRIVATE_KEY = vpk,
                              !.PARENT_CHAIN_RPC = rpc, !.WASM_ROOT = wasm,
                              !.CHAIN_ID = c])
     \/ LET set == [NoEnv EXCEPT !.PRIVATE_KEY = "k1", !.VALIDATOR_PRIVATE_KEY = "k2",
                                 !.PARENT_CHAIN_RPC = "rpc", !.WASM_ROOT = "0xroot",
                                 !.CHAIN_ID = "100"]
        IN  \/ \E v \in {"PRIVATE_KEY", "VALIDATOR_PRIVATE_KEY", "PARENT_CHAIN_RPC",
                         "WASM_ROOT", "CHAIN_ID"} :
                 Begin([set EXCEPT ![v] = ""])
            \/ Begin([set EXCEPT !.PRIVATE_KEY = "", !.VALIDATOR_PRIVATE_KEY = ""])

\* A validation without the WASM_ROOT check.
DeployEnvError_mut(e) ==
  IF e.PRIVATE_KEY \in {Unset, ""} THEN "PRIVATE_KEY not set in .env"
  ELSE IF e.VALIDATOR_PRIVATE_KEY \in {Unset, ""}
       THEN "VALIDATOR_PRIVATE_KEY not set in .env"
  ELSE IF e.VALIDATOR_PRIVATE_KEY = e.PRIVATE_KEY
       THEN "VALIDATOR_PRIVATE_KEY cannot be the same as PRIVATE_KEY or Batchposter Key!"
  ELSE IF e.PARENT_CHAIN_RPC \in {Unset, ""} THEN "PARENT_CHAIN_RPC not set in .env"
  ELSE None

\* "Validate environment variables": the message of the first check that throws,
\* None when all pass; !x holds for a variable that is unset or empty.
DeployEnvError(e) ==
  IF e.PRIVATE_KEY \in {Unset, ""} THEN "PRIVATE_KEY not set in .env"
  ELSE IF e.VALIDATOR_PRIVATE_KEY \in {Unset, ""}
       THEN "VALIDATOR_PRIVATE_KEY not set in .env"
  ELSE IF e.VALIDATOR_PRIVATE_KEY = e.PRIVATE_KEY
       THEN "VALIDATOR_PRIVATE_KEY cannot be the same as PRIVATE_KEY or Batchposter Key!"
  ELSE IF e.PARENT_CHAIN_RPC \in {Unset, ""} THEN "PARENT_CHAIN_RPC not set in .env"
  ELSE IF e.WASM_ROOT \in {Unset, ""} THEN "WASM_ROOT not set in .env"
  ELSE None

\* A throw inside main() reaches .catch: "Deployment failed", process.exit(1).
DeployValidate ==
  /\ UNCHANGED <<argv, compose>>
  /\ script = "deploy" /\ pc = "validate"
  /\ IF DeployEnvError(env) # None
     THEN Exit(1, {"Deployment failed", DeployEnvError(env)})
     ELSE Goto("getBalance", {})
  /\ UNCHANGED <<files, configs, chain, script, env, calls, balance, txHash,
                 receipt, coreContracts, decodedEvent, filename, latestFile, deployment,
                 verifyIdx, requests>>

\* A gate with a lower threshold.
InsufficientBalance_mut(b) == b < MIN_BALANCE - 2

\* balance < parseEther('0.5')
InsufficientBalance(b) == b < MIN_BALANCE

\* getBalance answers with a balance, or rejects to main().catch.
DeployGetBalance ==
  /\ UNCHANGED <<argv, compose>>
  /\ script = "deploy" /\ pc = "getBalance"
  /\ calls' = Append(calls, "getBalance")
  /\ \/ \E b \in Balances :
          /\ balance' = b
          /\ IF InsufficientBalance(b)
             THEN Exit(1, {"Insufficient balance", "Get test ETH from faucet"})
             ELSE Goto("prepareConfig", {})
     \/ /\ UNCHANGED balance
        /\ Exit(1, {"Deployment failed", "getBalance threw"})
  /\ UNCHANGED <<files, configs, chain, script, env, txHash, receipt,
                 coreContracts, decodedEvent, filename, latestFile, deployment, verifyIdx,
                 requests>>

\* x || d for an environment variable: unset and empty both give the default.
OrDefault(x, d) == IF x = Unset \/ x = "" THEN d ELSE x

DEFAULT_CHAIN_ID == 412346

\* parseInt(s, 10) on the strings of the model; -1 stands for NaN, what a
\* string without a leading number gives.
parseInt(s) ==
  CASE s = "100" -> 100
    [] s = "200" -> 200
    [] s = "3" -> 3
    [] s = "5" -> 5
    [] s = "2048" -> 2048
    [] s = "4096" -> 4096
    [] s = "536870912" -> 536870912
    [] s = "11155111" -> 11155111
    [] s = "412346" -> DEFAULT_CHAIN_ID
    [] s = "421614" -> 421614
    [] OTHER -> -1

\* parseInt(process.env.CHAIN_ID || '412346', 10)
ChainIdOf(e) == parseInt(OrDefault(e.CHAIN_ID, "412346"))

\* An address as printed.
AddressString(a) ==
  IF a = ZeroAddress THEN "0x0000000000000000000000000000000000000000"
  ELSE "0x" \o ToString(a)

\* process.env.NATIVE_TOKEN_ADDRESS || '0x00...00', the variable unset.
NativeToken == ZeroAddress

\* nativeToken === '0x00...00' ? 'ETH' : nativeToken
NativeTokenDisplay(t) == IF t = ZeroAddress THEN "ETH" ELSE AddressString(t)

\* s.split(sep) for a one-character separator: the pieces between the
\* separators, empty pieces kept; never an empty list.
RECURSIVE SplitFrom(_, _, _, _)
SplitFrom(s, sep, start, i) ==
  IF i > Len(s) THEN <<SubSeq(s, start, Len(s))>>
  ELSE IF SubSeq(s, i, i) = sep
  THEN <<SubSeq(s, start, i - 1)>> \o SplitFrom(s, sep, i + 1, i + 1)
  ELSE SplitFrom(s, sep, start, i + 1)

split(s, sep) == SplitFrom(s, sep, 1, 1)

\* s.trim(), the white space of the model being the blank.
RECURSIVE trim(_)
trim(s) ==
  IF s = "" THEN s
  ELSE IF SubSeq(s, 1, 1) = " " THEN trim(SubSeq(s, 2, Len(s)))
  ELSE IF SubSeq(s, Len(s), Len(s)) = " " THEN trim(SubSeq(s, 1, Len(s) - 1))
  ELSE s

\* A list that is empty when no validator is supplied.
Validators_mut(e) ==
  IF e.VALIDATOR_ADDRESSES = Unset \/ e.VALIDATOR_ADDRESSES = ""
  THEN <<>>
  ELSE LET parts == split(e.VALIDATOR_ADDRESSES, ",")
       IN  [i \in DOMAIN parts |-> trim(parts[i])]

\* process.env.VALIDATOR_ADDRESSES
\*   ? process.env.VALIDATOR_ADDRESSES.split(',').map(addr => addr.trim())
\*   : [deployer.address]
Validators(e) ==
  IF e.VALIDATOR_ADDRESSES = Unset \/ e.VALIDATOR_ADDRESSES = ""
  THEN <<privateKeyToAddress(e.PRIVATE_KEY)>>
  ELSE LET parts == split(e.VALIDATOR_ADDRESSES, ",")
       IN  [i \in DOMAIN parts |-> trim(parts[i])]

\* process.env.BATCH_POSTER_ADDRESS || deployer.address
BatchPoster(e) ==
  IF e.BATCH_POSTER_ADDRESS = Unset \/ e.BATCH_POSTER_ADDRESS = ""
  THEN privateKeyToAddress(e.PRIVATE_KEY)
  ELSE e.BATCH_POSTER_ADDRESS

\* "Parse configuration" and createRollupPrepareDeploymentParamsConfig, which
\* answers or rejects; an empty validator list throws to main().catch.
DeployPrepareConfig ==
  /\ UNCHANGED <<argv, compose>>
  /\ script = "deploy" /\ pc = "prepareConfig"
  /\ IF Len(Validators(env)) = 0
     THEN /\ Exit(1, {"Deployment failed",
                      "At least one validator address is required"})
          /\ UNCHANGED calls
     ELSE /\ calls' = Append(calls, "createRollupPrepareDeploymentParamsConfig")
          /\ \/ Goto("prepareTx",
                     {"  Native Token: " \o NativeTokenDisplay(NativeToken)})
             \/ Exit(1, {"  Native Token: " \o NativeTokenDisplay(NativeToken),
                         "Deployment failed",
                         "createRollupPrepareDeploymentParamsConfig threw"})
  /\ UNCHANGED <<files, configs, chain, script, env, balance, txHash, receipt,
                 coreContracts, decodedEvent, filename, latestFile, deployment, verifyIdx,
                 requests>>

\* createRollupPrepareTransactionRequest answers, or rejects to main().catch.
DeployPrepareTx ==
  /\ UNCHANGED <<argv, compose>>
  /\ script = "deploy" /\ pc = "prepareTx"
  /\ calls' = Append(calls, "createRollupPrepareTransactionRequest")
  /\ \/ Goto("send", {})
     \/ Exit(1, {"Deployment failed",
                 "createRollupPrepareTransactionRequest threw"})
  /\ UNCHANGED <<files, configs, chain, script, env, balance, txHash, receipt,
                 coreContracts, decodedEvent, filename, latestFile, deployment, verifyIdx,
                 requests>>

\* sendTransaction returns the hash of the broadcast transaction, or throws.
DeploySend ==
  /\ UNCHANGED <<argv, compose>>
  /\ script = "deploy" /\ pc = "send"
  /\ calls' = Append(calls, "sendTransaction")
  /\ \/ /\ txHash' = NextTxHash
        /\ Goto("wait", {})
     \/ /\ txHash' = 0
        /\ Exit(1, {"Deployment failed", "sendTransaction threw"})
  /\ UNCHANGED <<files, configs, chain, script, env, balance, receipt,
                 coreContracts, decodedEvent, filename, latestFile, deployment, verifyIdx,
                 requests>>

RECURSIVE LogsOnChain(_, _)
LogsOnChain(ch, hs) ==
  IF hs = {} THEN 0
  ELSE LET h == CHOOSE x \in hs : TRUE
       IN  Len(ch[h].logs) + LogsOnChain(ch, hs \ {h})

\* waitForTransactionReceipt: the transaction is mined with some receipt, or the
\* wait throws. The receipt's status is printed, never branched on.
\* A wait that treats a reverted receipt as a failed deployment.
DeployWait_mut ==
  /\ UNCHANGED <<argv, compose>>
  /\ script = "deploy" /\ pc = "wait"
  /\ calls' = Append(calls, "waitForTransactionReceipt")
  /\ \/ \E r \in Receipts(txHash) :
          /\ LogsOnChain(chain, DOMAIN chain) + Len(r.logs) <= MaxLogs
          /\ receipt' = [status |-> r.status, logs |-> r.logs, blockNumber |-> txHash]
          /\ chain' = [h \in DOMAIN chain \cup {txHash} |->
                         IF h = txHash THEN receipt' ELSE chain[h]]
          /\ IF r.status = "reverted"
             THEN Exit(1, {"Deployment failed", "transaction reverted"})
             ELSE Goto("scan", {"Deployment successful"})
     \/ /\ UNCHANGED <<receipt, chain>>
        /\ Exit(1, {"Deployment failed", "waitForTransactionReceipt threw"})
  /\ UNCHANGED <<files, configs, script, env, balance, txHash,
                 coreContracts, decodedEvent, filename, latestFile, deployment, verifyIdx,
                 requests>>

DeployWait ==
  /\ UNCHANGED <<argv, compose>>
  /\ script = "deploy" /\ pc = "wait"
  /\ calls' = Append(calls, "waitForTransactionReceipt")
  /\ \/ \E r \in Receipts(txHash) :
          /\ LogsOnChain(chain, DOMAIN chain) + Len(r.logs) <= MaxLogs
          /\ receipt' = [status |-> r.status, logs |-> r.logs, blockNumber |-> txHash]
          /\ chain' = [h \in DOMAIN chain \cup {txHash} |->
                         IF h = txHash THEN receipt' ELSE chain[h]]
          /\ Goto("scan", {"Deployment successful"})
     \/ /\ UNCHANGED <<receipt, chain>>
        /\ Exit(1, {"Deployment failed", "waitForTransactionReceipt threw"})
  /\ UNCHANGED <<files, configs, script, env, balance, txHash,
                 coreContracts, decodedEvent, filename, latestFile, deployment, verifyIdx,
                 requests>>

\* The loop of "Parsing deployment events" from log i on: up to the await of
\* the re-fetch for the next log that decodes, or to the end of the logs and
\* the message of a scan that found nothing.
ScanFrom(i) ==
  /\ UNCHANGED coreContracts
  /\ IF NextDecodable(receipt.logs, i) = 0
     THEN /\ UNCHANGED calls
          /\ Goto("persist", {"Could not parse RollupCreated event",
                              "Run npm run parse-deployment"})
     ELSE /\ calls' = Append(calls, "getTransactionReceipt")
          /\ Goto("refetch", {})

DeployScanLogs ==
  /\ UNCHANGED <<argv, compose>>
  /\ script = "deploy" /\ pc = "scan"
  /\ ScanFrom(1)
  /\ UNCHANGED <<files, configs, chain, script, env, balance, txHash, receipt,
                 decodedEvent, filename, latestFile, deployment, verifyIdx, requests>>

\* The awaited re-fetch settles.  With the receipt, getCoreContracts gives
\* the contracts and the loop breaks; a throw of the call or of the SDK is
\* caught, and the loop continues with the log after the one in hand, which
\* is the decoding log the last re-fetch was issued for.
DeployRefetchSettles ==
  /\ UNCHANGED <<argv, compose>>
  /\ script = "deploy" /\ pc = "refetch"
  /\ \/ /\ coreContracts' = GetCoreContracts(chain[txHash], receipt.blockNumber)
        /\ UNCHANGED calls
        /\ Goto("persist", {"Found RollupCreated event"})
     \/ ScanFrom(NthDecodable(receipt.logs, 1, Fetches(calls)) + 1)
  /\ UNCHANGED <<files, configs, chain, script, env, balance, txHash, receipt,
                 decodedEvent, filename, latestFile, deployment, verifyIdx, requests>>

\* writeFileSync(path, data): creates the file or replaces its content.
writeFileSync(fs, k, data) ==
  [x \in DOMAIN fs \cup {k} |-> IF x = k THEN data ELSE fs[x]]

\* The DeploymentInfo object; the native token at its default
\* (NATIVE_TOKEN_ADDRESS unset).
DeploymentInfo(e, hash, rcpt, core) ==
  [chainId |-> ChainIdOf(e),
   deployer |-> privateKeyToAddress(e.PRIVATE_KEY),
   transactionHash |-> hash,
   blockNumber |-> rcpt.blockNumber,
   validators |-> Validators(e),
   batchPoster |-> BatchPoster(e),
   nativeToken |-> NativeToken,
   contracts |-> IF IsNull(core) THEN EmptyContracts ELSE core]

\* `deployments/deployment-${chainId}-${Date.now()}.json`
DeploymentKey(e, stamp) == <<ChainIdOf(e), stamp>>

\* The nativeToken line of JSON.stringify(deploymentInfo, null, 2), printed
\* under "Deployment Summary:".
SummaryNativeToken(info) ==
  "  \"nativeToken\": \"" \o AddressString(info.nativeToken) \o "\","

\* "Save deployment info": Date.now() is the host's wall clock.  The write
\* succeeds, or throws (deployments/ missing or not writable) to main().catch.
DeployPersist ==
  /\ UNCHANGED <<argv, compose>>
  /\ script = "deploy" /\ pc = "persist"
  /\ calls' = Append(calls, "writeFileSync deployment")
  /\ \E stamp \in Stamps :
       /\ filename' = DeploymentKey(env, stamp)
       /\ \/ /\ files' = writeFileSync(files, filename',
                              DeploymentInfo(env, txHash, receipt, coreContracts))
             /\ Goto("nodeConfig",
                     {"Deployment Summary:",
                      SummaryNativeToken(DeploymentInfo(env, txHash, receipt,
                                                        coreContracts)),
                      "Deployment info saved"})
          \/ /\ UNCHANGED files
             /\ Exit(1, {"Deployment Summary:",
                         SummaryNativeToken(DeploymentInfo(env, txHash, receipt,
                                                           coreContracts)),
                         "Deployment failed", "writeFileSync threw"})
  /\ UNCHANGED <<configs, chain, script, env, balance, txHash, receipt,
                 coreContracts, decodedEvent, latestFile, deployment, verifyIdx,
                 requests>>

\* parseInt(String(n), 10) for a non-negative integer: its decimal digits read back.
RECURSIVE ParseDigits(_)
ParseDigits(ds) ==
  IF Len(ds) = 0 THEN 0
  ELSE 10 * ParseDigits(SubSeq(ds, 1, Len(ds) - 1)) + (ds[Len(ds)] - 48)

\* A block whose retries default is that of the README's example column.
DaProviderBlock_mut(e) ==
  [enable |-> TRUE,
   withWriter |-> TRUE,
   rpc |-> [url |-> OrDefault(e.DA_PROVIDER_URL, "http://celestia-server:26657"),
            retries |-> parseInt(OrDefault(e.DA_PROVIDER_RETRIES, "5")),
            retryErrors |->
              OrDefault(e.DA_PROVIDER_RETRY_ERRORS,
                "websocket: close.*|dial tcp .*|.*i/o timeout|.*connection reset by peer|.*connection refused"),
            argLogLimit |-> parseInt(OrDefault(e.DA_PROVIDER_ARG_LOG_LIMIT, "2048")),
            websocketMessageSizeLimit |->
              IF OrDefault(e.DA_PROVIDER_WS_MESSAGE_SIZE_LIMIT, Unset) = Unset
              THEN ParseDigits(Digits(256 * 1024 * 1024))
              ELSE parseInt(e.DA_PROVIDER_WS_MESSAGE_SIZE_LIMIT)]]

\* node['da-provider'] (with-writer, retry-errors, arg-log-limit and
\* websocket-message-size-limit as withWriter, retryErrors, argLogLimit and
\* websocketMessageSizeLimit).
DaProviderBlock(e) ==
  [enable |-> TRUE,
   withWriter |-> TRUE,
   rpc |-> [url |-> OrDefault(e.DA_PROVIDER_URL, "http://celestia-server:26657"),
            retries |-> parseInt(OrDefault(e.DA_PROVIDER_RETRIES, "3")),
            retryErrors |->
              OrDefault(e.DA_PROVIDER_RETRY_ERRORS,
                "websocket: close.*|dial tcp .*|.*i/o timeout|.*connection reset by peer|.*connection refused"),
            argLogLimit |-> parseInt(OrDefault(e.DA_PROVIDER_ARG_LOG_LIMIT, "2048")),
            websocketMessageSizeLimit |->
              IF OrDefault(e.DA_PROVIDER_WS_MESSAGE_SIZE_LIMIT, Unset) = Unset
              THEN ParseDigits(Digits(256 * 1024 * 1024))
              ELSE parseInt(e.DA_PROVIDER_WS_MESSAGE_SIZE_LIMIT)]]

\* The node object prepareNodeConfig returns, as far as the script touches it:
\* 'data-availability' and 'dangerous', each absent (<<>>) or present with its
\* enable / disable-blob-reader flag.
BaseNode(da, dg) ==
  [k \in (IF da = <<>> THEN {} ELSE {"data-availability"})
           \cup (IF dg = <<>> THEN {} ELSE {"dangerous"}) |->
     IF k = "data-availability" THEN [enable |-> da[1]]
     ELSE [disableBlobReader |-> dg[1]]]

FlagOptions == {<<>>, <<TRUE>>, <<FALSE>>}
BaseNodes == {BaseNode(da, dg) : da \in FlagOptions, dg \in FlagOptions}

\* nodeConfigWithDA.node['da-provider'] = {...}
WithDaProvider(node, block) ==
  [k \in DOMAIN node \cup {"da-provider"} |->
     IF k = "da-provider" THEN block ELSE node[k]]

\* The two assignments throw a TypeError when the object they set a property
\* on is missing.
ForceOffThrows(node) == ~({"data-availability", "dangerous"} \subseteq DOMAIN node)

\* A config that keeps the template's settings.
ForceOff_mut(node) == node

\* node['data-availability'].enable = false;
\* node['dangerous']['disable-blob-reader'] = true
ForceOff(node) ==
  [k \in DOMAIN node |->
     IF k = "data-availability" THEN [node[k] EXCEPT !.enable = FALSE]
     ELSE IF k = "dangerous" THEN [node[k] EXCEPT !.disableBlobReader = TRUE]
     ELSE node[k]]

SEPOLIA_CHAIN_ID == 11155111

\* parseInt(process.env.PARENT_CHAIN_ID || String(SEPOLIA_CHAIN_ID), 10)
ParentChainIdOf(e) == parseInt(OrDefault(e.PARENT_CHAIN_ID, "11155111"))

\* The parent-chain block prepareNodeConfig returns for parentChainRpcUrl and
\* parentChainBeaconRpcUrl: the connection, with or without further settings,
\* and the blob client.
ParentChainTemplates(e) ==
  {[connection |-> c, blobClient |-> [beaconUrl |-> e.PARENT_CHAIN_RPC]] :
     c \in {[url |-> e.PARENT_CHAIN_RPC],
            [url |-> e.PARENT_CHAIN_RPC, retries |-> 2]}}

\* A block rebuilt from the two overriding values alone.
OverrideParentChain_mut(block, e) ==
  IF ParentChainIdOf(e) # SEPOLIA_CHAIN_ID
  THEN [connection |-> [url |-> e.PARENT_CHAIN_RPC], id |-> ParentChainIdOf(e)]
  ELSE block

\* "Override with user's custom parent chain ID if different": parentChain is
\* viem's sepolia, whose id is 11155111.
OverrideParentChain(block, e) ==
  IF ParentChainIdOf(e) # SEPOLIA_CHAIN_ID
  THEN [k \in DOMAIN block \cup {"connection", "id"} |->
          IF k = "id" THEN ParentChainIdOf(e)
          ELSE IF k = "connection"
          THEN [j \in DOMAIN block.connection \cup {"url"} |->
                  IF j = "url" THEN e.PARENT_CHAIN_RPC ELSE block.connection[j]]
          ELSE block[k]]
  ELSE block

\* The node configuration written: the keys, the parent-chain block and the
\* node object.
NodeConfig(e, core, base, parent) ==
  [chainId |-> ChainIdOf(e),
   rollup |-> core.rollup,
   batchPosterPrivateKey |-> OrDefault(e.BATCH_POSTER_PRIVATE_KEY, e.PRIVATE_KEY),
   validatorPrivateKey |-> OrDefault(e.VALIDATOR_PRIVATE_KEY, e.PRIVATE_KEY),
   parentChain |-> OverrideParentChain(parent, e),
   node |-> ForceOff(WithDaProvider(base, DaProviderBlock(e)))]

\* The line printed when the parent-chain block is overridden.
OverrideMessage(e) ==
  IF ParentChainIdOf(e) # SEPOLIA_CHAIN_ID
  THEN {"Overriding parent chain ID"} ELSE {}

\* A generator that saves the config as soon as the DA provider block is in
\* and patches the file's settings afterwards.
DeployNodeConfig_mut ==
  /\ UNCHANGED <<argv, compose>>
  /\ script = "deploy" /\ pc = "nodeConfig"
  /\ IF IsNull(coreContracts)
     THEN /\ UNCHANGED <<configs, calls, env>>
          /\ Exit(0, {"Next Steps"})
     ELSE \E bpk \in {Unset, "", "k2"}, base \in BaseNodes,
             parent \in ParentChainTemplates(env) :
            /\ env' = [env EXCEPT !.BATCH_POSTER_PRIVATE_KEY = bpk]
            /\ calls' = Append(calls, "writeFileSync node-config")
            /\ IF ForceOffThrows(base)
               THEN /\ configs' =
                         writeFileSync(configs, <<"node-config", ChainIdOf(env)>>,
                           [NodeConfig(env', coreContracts,
                                       BaseNode(<<TRUE>>, <<FALSE>>), parent)
                              EXCEPT !.node = WithDaProvider(base, DaProviderBlock(env))])
                    /\ Exit(0, {"Adding DA Provider configuration",
                                "Failed to generate node config", "Next Steps"})
               ELSE /\ configs' =
                         writeFileSync(configs, <<"node-config", ChainIdOf(env)>>,
                                       NodeConfig(env', coreContracts, base, parent))
                    /\ Exit(0, {"Adding DA Provider configuration",
                                "Node configuration saved", "Next Steps"})
  /\ UNCHANGED <<files, chain, script, balance, txHash, receipt,
                 coreContracts, decodedEvent, filename, latestFile, deployment, verifyIdx,
                 requests>>

\* "Generate node config if contracts were parsed successfully", inside try/catch;
\* then main() returns and .then(() => process.exit(0)) runs.  The template
\* call can throw (nothing printed yet), the two forced assignments can, and
\* the write of the file can (config/ missing or not writable).
DeployNodeConfig ==
  /\ UNCHANGED <<argv, compose>>
  /\ script = "deploy" /\ pc = "nodeConfig"
  /\ IF IsNull(coreContracts)
     THEN /\ UNCHANGED <<configs, calls, env>>
          /\ Exit(0, {"Next Steps"})
     ELSE \E bpk \in {Unset, "", "k2"} :
            /\ env' = [env EXCEPT !.BATCH_POSTER_PRIVATE_KEY = bpk]
            /\ \/ \E base \in BaseNodes :
                    IF ForceOffThrows(base)
                    THEN /\ UNCHANGED <<configs, calls>>
                         /\ Exit(0, OverrideMessage(env)
                                      \cup {"Adding DA Provider configuration",
                                            "Failed to generate node config",
                                            "Next Steps"})
                    ELSE /\ calls' = Append(calls, "writeFileSync node-config")
                         /\ \/ /\ \E parent \in ParentChainTemplates(env) :
                                    configs' =
                                      writeFileSync(configs,
                                                    <<"node-config", ChainIdOf(env)>>,
                                                    NodeConfig(env', coreContracts,
                                                               base, parent))
                               /\ Exit(0, OverrideMessage(env)
                                            \cup {"Adding DA Provider configuration",
                                                  "Node configuration saved",
                                                  "Next Steps"}
                                            \cup (IF env.DA_PROVIDER_ENABLE = "true"
                                                  THEN {"DA Provider summary line"}
                                                  ELSE {}))
                            \/ /\ UNCHANGED configs
                               /\ Exit(0, OverrideMessage(env)
                                            \cup {"Adding DA Provider configuration",
                                                  "Failed to generate node config",
                                                  "Next Steps"})
               \/ /\ UNCHANGED <<configs, calls>>
                  /\ Exit(0, {"Failed to generate node config", "Next Steps"})
  /\ UNCHANGED <<files, chain, script, balance, txHash, receipt,
                 coreContracts, decodedEvent, filename, latestFile, deployment, verifyIdx,
                 requests>>

(***************************************************************************)
(* parse-deployment.                                                       *)
(***************************************************************************)
StartParse ==
  /\ UNCHANGED <<argv, compose>>
  /\ script' = "parse"
  /\ \E rpc \in {Unset, "", "rpc"} : Begin([NoEnv EXCEPT !.PARENT_CHAIN_RPC = rpc])

\* main().catch(console.error): status 0 after a throw inside main().
ParseCatchExit == 0

ParseValidate ==
  /\ UNCHANGED <<argv, compose>>
  /\ script = "parse" /\ pc = "validate"
  /\ IF env.PARENT_CHAIN_RPC \in {Unset, ""}
     THEN Exit(ParseCatchExit, {"PARENT_CHAIN_RPC not set in .env"})
     ELSE Goto("findLatest", {})
  /\ UNCHANGED <<files, configs, chain, script, env, calls, balance, txHash,
                 receipt, coreContracts, decodedEvent, filename, latestFile,
                 deployment, verifyIdx, requests>>

\* JSON.parse(readFileSync(`deployments/${name}`)): the record stored under the
\* name; an entry that is no deployment record parses to something without one.
ReadDeployment(fs, name) ==
  IF \E k \in DOMAIN fs : FileName(k[1], k[2]) = name
  THEN fs[KeyOf(fs, name)]
  ELSE [chainId |-> 0, transactionHash |-> 0, contracts |-> EmptyContracts]

\* "Find most recent deployment file": shared by parse-deployment and
\* verify-contracts.  Nothing creates deployments/: while no record has been
\* written the directory may be absent, and readdirSync then throws ENOENT to
\* main().catch(console.error), which prints the error; the status is 0.
FindLatest ==
  LET list == DeploymentFiles(files)
  IN  /\ calls' = Append(calls, "readdirSync")
      /\ \E dirExists \in (IF DOMAIN files = {} THEN BOOLEAN ELSE {TRUE}) :
           IF ~dirExists
           THEN /\ UNCHANGED <<latestFile, deployment>>
                /\ Exit(0, {"readdirSync threw"})
           ELSE IF Len(list) = 0
           THEN /\ UNCHANGED <<latestFile, deployment>>
                /\ Exit(1, {"No deployment files found", "Run npm run deploy first"})
           ELSE /\ latestFile' = list[1]
                /\ deployment' = ReadDeployment(files, list[1])
                /\ Goto("loaded", {"Reading latest file"})

ParseFindLatest ==
  /\ UNCHANGED <<argv, compose>>
  /\ script = "parse" /\ pc = "findLatest"
  /\ FindLatest
  /\ UNCHANGED <<files, configs, chain, script, env, balance, txHash,
                 receipt, coreContracts, decodedEvent, filename, verifyIdx,
                 requests>>

\* getTransactionReceipt: the receipt, nothing, or a throw (caught by .catch).
ParseGetReceipt ==
  /\ UNCHANGED <<argv, compose>>
  /\ script = "parse" /\ pc = "loaded"
  /\ calls' = Append(calls, "getTransactionReceipt")
  /\ \/ /\ deployment.transactionHash \in DOMAIN chain
        /\ receipt' = chain[deployment.transactionHash]
        /\ Goto("scan", {"Receipt found"})
     \/ /\ UNCHANGED receipt
        /\ Exit(1, {"Transaction receipt not found"})
     \/ /\ UNCHANGED receipt
        /\ Exit(ParseCatchExit, {"getTransactionReceipt threw"})
  /\ UNCHANGED <<files, configs, chain, script, env, balance, txHash,
                 coreContracts, decodedEvent, filename, latestFile, deployment,
                 verifyIdx, requests>>

\* A scan that leaves a stub config/chain-<chainId>.json behind on a miss.
ParseScanLogs_mut ==
  /\ UNCHANGED <<argv, compose>>
  /\ script = "parse" /\ pc = "scan"
  /\ LET i == ParseScan(receipt.logs, 1)
     IN  IF i = 0
         THEN /\ UNCHANGED decodedEvent
              /\ configs' = writeFileSync(configs, <<"chain", deployment.chainId>>,
                                          [chainId |-> deployment.chainId])
              /\ Exit(1, {"RollupCreated event not found in transaction logs"})
         ELSE /\ decodedEvent' = decodeEventLog(receipt.logs[i])
              /\ UNCHANGED configs
              /\ Goto("write", {"Found RollupCreated event"})
  /\ UNCHANGED <<files, chain, script, env, calls, balance, txHash,
                 receipt, coreContracts, filename, latestFile, deployment,
                 verifyIdx, requests>>

ParseScanLogs ==
  /\ UNCHANGED <<argv, compose>>
  /\ script = "parse" /\ pc = "scan"
  /\ LET i == ParseScan(receipt.logs, 1)
     IN  IF i = 0
         THEN /\ UNCHANGED decodedEvent
              /\ Exit(1, {"RollupCreated event not found in transaction logs"})
         ELSE /\ decodedEvent' = decodeEventLog(receipt.logs[i])
              /\ Goto("write", {"Found RollupCreated event"})
  /\ UNCHANGED <<files, configs, chain, script, env, calls, balance, txHash,
                 receipt, coreContracts, filename, latestFile, deployment,
                 verifyIdx, requests>>

\* The "simplified config file for node operators".
ChainConfigFile(d, args) ==
  [chainId |-> d.chainId,
   rollup |-> d.contracts.rollup,
   inbox |-> d.contracts.inbox,
   outbox |-> d.contracts.outbox,
   sequencerInbox |-> d.contracts.sequencerInbox,
   bridge |-> d.contracts.bridge,
   adminProxy |-> d.contracts.adminProxy,
   validators |-> d.validators,
   batchPoster |-> d.batchPoster,
   nativeToken |-> args.nativeToken]

\* A write to a fresh name: the stamp of the name looked up, advanced.
UpdateTarget_mut(fs, name) == <<KeyOf(fs, name)[1], KeyOf(fs, name)[2] + 1>>

\* The file written back: the name looked up, under deployments/.
UpdateTarget(fs, name) == KeyOf(fs, name)

\* deployment.contracts = {...}; writeFileSync(latestFile, ...); the node config;
\* main() returns and the process ends with status 0.
\* Each of the two writes succeeds or throws to main().catch(console.error);
\* when the second throws the deployment file is already rewritten.
ParseWrite ==
  /\ UNCHANGED <<argv, compose>>
  /\ script = "parse" /\ pc = "write"
  /\ deployment' = [deployment EXCEPT !.contracts = ParseContracts(decodedEvent.args)]
  /\ \/ /\ files' = writeFileSync(files, UpdateTarget(files, latestFile), deployment')
        /\ configs' = writeFileSync(configs, <<"chain", deployment.chainId>>,
                                    ChainConfigFile(deployment', decodedEvent.args))
        /\ calls' = calls \o <<"writeFileSync deployment", "writeFileSync chain-config">>
        /\ Exit(0, {"  Native Token: " \o AddressString(decodedEvent.args.nativeToken),
                    "Updated deployment file", "Parsing complete"})
     \/ /\ files' = writeFileSync(files, UpdateTarget(files, latestFile), deployment')
        /\ UNCHANGED configs
        /\ calls' = calls \o <<"writeFileSync deployment", "writeFileSync chain-config">>
        /\ Exit(ParseCatchExit,
                {"  Native Token: " \o AddressString(decodedEvent.args.nativeToken),
                 "Updated deployment file", "writeFileSync threw"})
     \/ /\ UNCHANGED <<files, configs>>
        /\ calls' = Append(calls, "writeFileSync deployment")
        /\ Exit(ParseCatchExit,
                {"  Native Token: " \o AddressString(decodedEvent.args.nativeToken),
                 "writeFileSync threw"})
  /\ UNCHANGED <<chain, script, env, balance, txHash, receipt, coreContracts,
                 decodedEvent, filename, latestFile, verifyIdx, requests>>

(***************************************************************************)
(* verify-contracts.                                                       *)
(***************************************************************************)
StartVerify ==
  /\ UNCHANGED <<argv, compose>>
  /\ script' = "verify"
  /\ \E key \in {Unset, "", "apikey"} :
       Begin([NoEnv EXCEPT !.ETHERSCAN_API_KEY = key])

VerifyValidate ==
  /\ UNCHANGED <<argv, compose>>
  /\ script = "verify" /\ pc = "validate"
  /\ IF env.ETHERSCAN_API_KEY \in {Unset, ""}
     THEN Exit(1, {"ETHERSCAN_API_KEY not set in .env"})
     ELSE Goto("findLatest", {})
  /\ UNCHANGED <<files, configs, chain, script, env, calls, balance, txHash,
                 receipt, coreContracts, decodedEvent, filename, latestFile,
                 deployment, verifyIdx, requests>>

VerifyFindLatest ==
  /\ UNCHANGED <<argv, compose>>
  /\ script = "verify" /\ pc = "findLatest"
  /\ FindLatest
  /\ UNCHANGED <<files, configs, chain, script, env, balance, txHash,
                 receipt, coreContracts, decodedEvent, filename, verifyIdx,
                 requests>>

\* The roles main() lists, in order; .filter(c => c.address) keeps those present.
ContractsToVerify(d) ==
  SelectSeq(<<"rollup", "inbox", "outbox", "bridge", "sequencerInbox", "adminProxy">>,
            LAMBDA r : r \in DOMAIN d.contracts)

VerifyCheckContracts ==
  /\ UNCHANGED <<argv, compose>>
  /\ script = "verify" /\ pc = "loaded"
  /\ IF DOMAIN deployment.contracts = {}
     THEN Exit(1, {"No contract addresses found in deployment file",
                   "Run npm run parse-deployment first"})
     ELSE Goto("verifying", {"Starting verification process"})
  /\ UNCHANGED <<files, configs, chain, script, env, calls, balance, txHash,
                 receipt, coreContracts, decodedEvent, filename, latestFile,
                 deployment, verifyIdx, requests>>

\* "Verify each contract", one step per continuation of the async functions:
\* every await of verifyContract and of the loop is a place where the run is
\* suspended until a fetch settles or a timer fires.  The events of the
\* contract in hand are kept in requests.requests: the action of a request
\* when it is issued, "response" when its fetch settles (with an answer or an
\* error), "sleep n" when a timer is set and "wake" when it fires;
\* requests.report is what verifyContract reported, requests.log its lines.
\* A fetch that resolved is followed by `await response.json()`: the run is
\* suspended once more, at pc "lookupBody", "submitBody" or "pollBody", until
\* the body is read (or fails to parse, which throws like a failed fetch).

\* Requests issued and not yet settled.
Outstanding(q) ==
  Cardinality({i \in DOMAIN q : q[i] \in {"getsourcecode", "verifyproxycontract",
                                      "checkproxyverification"}})
    - Cardinality({i \in DOMAIN q : q[i] = "response"})

\* Timers set and not yet fired.
Sleeping(q) ==
  Cardinality({i \in DOMAIN q : q[i] \in {"sleep 2000", "sleep 5000"}})
    - Cardinality({i \in DOMAIN q : q[i] = "wake"})

VerifyStep(events, report, logged, to) ==
  /\ requests' = [requests |-> requests.requests \o events, report |-> report,
                  log |-> requests.log \cup logged]
  /\ Goto(to, {})
  /\ UNCHANGED <<argv, compose, files, configs, chain, script, env, calls,
                 balance, txHash, receipt, coreContracts, decodedEvent,
                 filename, latestFile, deployment, verifyIdx>>

\* A loop that does not await the pacing sleep: the timer is set and the
\* next contract's lookup goes out in the same continuation.
VerifyReturn_mut(events, report) ==
  /\ requests' = [requests |-> requests.requests \o events \o <<"sleep 2000">>,
                  report |-> report, log |-> requests.log \cup {report}]
  /\ verifyIdx' = verifyIdx + 1
  /\ Goto("verifying", {})
  /\ UNCHANGED <<argv, compose, files, configs, chain, script, env, calls,
                 balance, txHash, receipt, coreContracts, decodedEvent,
                 filename, latestFile, deployment>>

\* verifyContract returns to the loop, which awaits sleep(DELAY_BETWEEN_REQUESTS).
VerifyReturn(events, report) ==
  VerifyStep(events \o <<"sleep 2000">>, report, {report}, "pace")

\* The loop calls verifyContract: without an API key it returns at once,
\* otherwise it runs up to the await of the source lookup.
VerifyCall ==
  /\ script = "verify" /\ pc = "verifying"
  /\ verifyIdx < Len(ContractsToVerify(deployment))
  /\ IF env.ETHERSCAN_API_KEY \in {Unset, ""}
     THEN /\ requests' = [requests |-> <<"sleep 2000">>,
                          report |-> "Skipping - ETHERSCAN_API_KEY not set",
                          log |-> {"Skipping - ETHERSCAN_API_KEY not set"}]
          /\ Goto("pace", {})
     ELSE /\ requests' = [requests |-> <<"getsourcecode">>, report |-> None,
                          log |-> {}]
          /\ Goto("lookup", {})
  /\ UNCHANGED <<argv, compose, files, configs, chain, script, env, calls,
                 balance, txHash, receipt, coreContracts, decodedEvent,
                 filename, latestFile, deployment, verifyIdx>>

\* The fetch of the lookup settles: resolved, the body is awaited; rejected,
\* the catch logs it and the POST of verifyproxycontract goes out.
VerifyLookupSettles ==
  /\ script = "verify" /\ pc = "lookup"
  /\ \/ VerifyStep(<<"response">>, None, {}, "lookupBody")
     \/ VerifyStep(<<"response", "verifyproxycontract">>, None,
                   {"Checking verification status failed"}, "submit")

\* The body of the lookup is read: verified source returns, anything else
\* goes on to the POST of verifyproxycontract; a body that threw is logged
\* first.
VerifyLookupBody ==
  /\ script = "verify" /\ pc = "lookupBody"
  /\ \E check \in {"throws", "verified", "unverified"} :
       IF check = "verified"
       THEN VerifyReturn(<<>>, "already verified")
       ELSE VerifyStep(<<"verifyproxycontract">>, None,
                       IF check = "throws"
                       THEN {"Checking verification status failed"} ELSE {},
                       "submit")

\* A submission whose rejected fetch escapes to main().catch.
VerifySubmitSettles_mut ==
  /\ script = "verify" /\ pc = "submit"
  /\ \/ VerifyStep(<<"response">>, None, {}, "submitBody")
     \/ /\ Exit(0, {"fetch threw"})
        /\ UNCHANGED <<argv, compose, files, configs, chain, script, env,
                       calls, balance, txHash, receipt, coreContracts,
                       decodedEvent, filename, latestFile, deployment,
                       verifyIdx, requests>>

\* The fetch of the submission settles: resolved, the body is awaited;
\* rejected, the catch of the function reports it and verifyContract returns.
VerifySubmitSettles ==
  /\ script = "verify" /\ pc = "submit"
  /\ \/ VerifyStep(<<"response">>, None, {}, "submitBody")
     \/ VerifyReturn(<<"response">>, "Error verifying")

\* The body of the submission is read: accepted sets the 5 s timer, the rest
\* returns, a throw through the catch of the function.
VerifySubmitBody ==
  /\ script = "verify" /\ pc = "submitBody"
  /\ \E submit \in {"throws", "accepted", "rejected"} :
       IF submit = "accepted"
       THEN VerifyStep(<<"sleep 5000">>, None, {}, "delay")
       ELSE VerifyReturn(<<>>, IF submit = "throws" THEN "Error verifying"
                               ELSE "verification response")

\* The 5 s timer fires: the status poll goes out.
VerifyDelayElapses ==
  /\ script = "verify" /\ pc = "delay"
  /\ VerifyStep(<<"wake", "checkproxyverification">>, None, {}, "poll")

\* The fetch of the poll settles: resolved, the body is awaited; rejected,
\* the catch reports it and verifyContract returns.
VerifyPollSettles ==
  /\ script = "verify" /\ pc = "poll"
  /\ \/ VerifyStep(<<"response">>, None, {}, "pollBody")
     \/ VerifyReturn(<<"response">>, "Error verifying")

\* A poll that is repeated, after another delay, while the answer is pending.
VerifyPollBody_mut ==
  /\ script = "verify" /\ pc = "pollBody"
  /\ \E poll \in {"throws", "verified", "pending"} :
       IF poll = "pending"
       THEN VerifyStep(<<"sleep 5000">>, None, {}, "delay")
       ELSE VerifyReturn(<<>>, IF poll = "throws" THEN "Error verifying"
                               ELSE "verified successfully")

\* The body of the poll is read: whatever it says verifyContract returns.
VerifyPollBody ==
  /\ script = "verify" /\ pc = "pollBody"
  /\ \E poll \in {"throws", "verified", "pending"} :
       VerifyReturn(<<>>, IF poll = "throws" THEN "Error verifying"
                          ELSE IF poll = "verified" THEN "verified successfully"
                          ELSE "verification pending")

\* The pacing timer fires: the loop moves to the next contract.
VerifyPaceElapses ==
  /\ script = "verify" /\ pc = "pace"
  /\ requests' = [requests EXCEPT !.requests = @ \o <<"wake">>]
  /\ verifyIdx' = verifyIdx + 1
  /\ Goto("verifying", {})
  /\ UNCHANGED <<argv, compose, files, configs, chain, script, env, calls,
                 balance, txHash, receipt, coreContracts, decodedEvent,
                 filename, latestFile, deployment>>

\* "Verification Complete!"; main() returns and the process ends with status 0.
VerifyDone ==
  /\ UNCHANGED <<argv, compose>>
  /\ script = "verify" /\ pc = "verifying"
  /\ verifyIdx = Len(ContractsToVerify(deployment))
  /\ Exit(0, {"Verification Complete"})
  /\ UNCHANGED <<files, configs, chain, script, env, calls, balance, txHash,
                 receipt, coreContracts, decodedEvent, filename, latestFile,
                 deployment, verifyIdx, requests>>

(***************************************************************************)
(* Specification.                                                          *)
(***************************************************************************)
Next ==
  \/ StartBalance \/ BalanceValidate \/ BalanceCheck
  \/ StartDeploy \/ DeployValidate \/ DeployGetBalance \/ DeployPrepareConfig
  \/ DeployPrepareTx \/ DeploySend \/ DeployWait \/ DeployScanLogs
  \/ DeployRefetchSettles
  \/ DeployPersist \/ DeployNodeConfig
  \/ StartParse \/ ParseValidate \/ ParseFindLatest \/ ParseGetReceipt
  \/ ParseScanLogs \/ ParseWrite
  \/ StartVerify \/ VerifyValidate \/ VerifyFindLatest \/ VerifyCheckContracts
  \/ VerifyCall \/ VerifyLookupSettles \/ VerifyLookupBody
  \/ VerifySubmitSettles \/ VerifySubmitBody \/ VerifyDelayElapses
  \/ VerifyPollSettles \/ VerifyPollBody \/ VerifyPaceElapses
  \/ VerifyDone

Spec == Init /\ [][Next]_vars

(***************************************************************************)
(* The log scans on larger receipts: a deployment whose transaction was    *)
(* just mined with a receipt of up to MaxScanLogs logs, followed by any    *)
(* number of parse-deployment runs against it.                             *)
(***************************************************************************)
MaxScanLogs == 3

\* The transaction's own logs and the RollupCreated log of another rollup.
ScanLogKinds == LogKinds(1) \cup {RollupCreatedLog(2)}

ScanEnv ==
  [NoEnv EXCEPT !.PRIVATE_KEY = "k1", !.VALIDATOR_PRIVATE_KEY = "k2",
                !.PARENT_CHAIN_RPC = "rpc", !.WASM_ROOT = "0xroot",
                !.CHAIN_ID = "100"]

\* The state of deploy-orbit when waitForTransactionReceipt has returned.
InitScan ==
  /\ \E l \in SeqsUpTo(ScanLogKinds, MaxScanLogs) :
       /\ receipt = [status |-> "success", logs |-> l, blockNumber |-> 1]
       /\ chain = [h \in {1} |-> receipt]
  /\ files = EmptyFn
  /\ configs = EmptyFn
  /\ script = "deploy"
  /\ pc = "scan"
  /\ env = ScanEnv
  /\ calls = <<"getBalance", "createRollupPrepareDeploymentParamsConfig",
               "createRollupPrepareTransactionRequest", "sendTransaction",
               "waitForTransactionReceipt">>
  /\ out = {"  Native Token: " \o NativeTokenDisplay(NativeToken),
            "Deployment successful"}
  /\ exitCode = -1
  /\ balance = MIN_BALANCE
  /\ txHash = 1
  /\ coreContracts = Null
  /\ decodedEvent = Null
  /\ filename = Null
  /\ latestFile = Null
  /\ deployment = Null
  /\ verifyIdx = 0
  /\ requests = <<>>
  /\ argv = <<>>
  /\ compose = EmptyFn

NextScan ==
  \/ DeployScanLogs \/ DeployRefetchSettles \/ DeployPersist \/ DeployNodeConfig
  \/ StartParse \/ ParseValidate \/ ParseFindLatest \/ ParseGetReceipt
  \/ ParseScanLogs \/ ParseWrite

SpecScan == InitScan /\ [][NextScan]_vars

(***************************************************************************)
(* The deploy script that stores rawEventData (deploy-orbit.ts 1-270), run *)
(* once from a fresh process.  It decodes nothing; the record's contracts  *)
(* are empty and the log it picked is kept as topics and data.             *)
(***************************************************************************)
\* A fresh process under any setting of the variables the script checks, and
\* of VALIDATOR_PRIVATE_KEY, which it does not read.
InitRaw ==
  /\ \E pk \in {Unset, "", "k1"}, vpk \in {Unset, "k2"}, rpc \in {Unset, "", "rpc"},
        wasm \in {Unset, "", "0xroot"}, c \in {"100", ""} :
       env = [NoEnv EXCEPT !.PRIVATE_KEY = pk, !.VALIDATOR_PRIVATE_KEY = vpk,
                           !.PARENT_CHAIN_RPC = rpc, !.WASM_ROOT = wasm,
                           !.CHAIN_ID = c]
  /\ files = EmptyFn
  /\ configs = EmptyFn
  /\ chain = EmptyFn
  /\ script = "deploy-raw"
  /\ pc = "validate"
  /\ calls = <<>>
  /\ out = {}
  /\ exitCode = -1
  /\ balance = -1
  /\ txHash = 0
  /\ receipt = Null
  /\ coreContracts = Null
  /\ decodedEvent = Null
  /\ filename = Null
  /\ latestFile = Null
  /\ deployment = Null
  /\ verifyIdx = 0
  /\ requests = <<>>
  /\ argv = <<>>
  /\ compose = EmptyFn

\* "Validate environment variables": PRIVATE_KEY, PARENT_CHAIN_RPC, WASM_ROOT,
\* in this order, each failing when unset or empty; a throw reaches main().catch: "Deployment failed", exit 1.
DeployRawValidate ==
  /\ script = "deploy-raw" /\ pc = "validate"
  /\ IF env.PRIVATE_KEY \in {Unset, ""}
     THEN Exit(1, {"Deployment failed", "PRIVATE_KEY not set in .env"})
     ELSE IF env.PARENT_CHAIN_RPC \in {Unset, ""}
     THEN Exit(1, {"Deployment failed", "PARENT_CHAIN_RPC not set in .env"})
     ELSE IF env.WASM_ROOT \in {Unset, ""}
     THEN Exit(1, {"Deployment failed", "WASM_ROOT not set in .env"})
     ELSE Goto("getBalance", {})
  /\ UNCHANGED <<argv, compose, files, configs, chain, script, env, calls,
                 balance, txHash, receipt, coreContracts, decodedEvent,
                 filename, latestFile, deployment, verifyIdx, requests>>

\* getBalance answers with a balance, or rejects to main().catch; below
\* parseEther('0.5') the script calls process.exit(1).
DeployRawGetBalance ==
  /\ script = "deploy-raw" /\ pc = "getBalance"
  /\ calls' = Append(calls, "getBalance")
  /\ \/ \E b \in Balances :
          /\ balance' = b
          /\ IF b < MIN_BALANCE
             THEN Exit(1, {"Insufficient balance", "Get test ETH from faucet"})
             ELSE Goto("prepareConfig", {})
     \/ /\ UNCHANGED balance
        /\ Exit(1, {"Deployment failed", "getBalance threw"})
  /\ UNCHANGED <<argv, compose, files, configs, chain, script, env, txHash,
                 receipt, coreContracts, decodedEvent, filename, latestFile,
                 deployment, verifyIdx, requests>>

\* "Parse configuration" and createRollupPrepareDeploymentParamsConfig, which
\* answers or rejects to main().catch.
DeployRawPrepareConfig ==
  /\ script = "deploy-raw" /\ pc = "prepareConfig"
  /\ calls' = Append(calls, "createRollupPrepareDeploymentParamsConfig")
  /\ \/ Goto("prepareTx", {"  Native Token: " \o NativeTokenDisplay(NativeToken)})
     \/ Exit(1, {"  Native Token: " \o NativeTokenDisplay(NativeToken),
                 "Deployment failed",
                 "createRollupPrepareDeploymentParamsConfig threw"})
  /\ UNCHANGED <<argv, compose, files, configs, chain, script, env, balance,
                 txHash, receipt, coreContracts, decodedEvent, filename,
                 latestFile, deployment, verifyIdx, requests>>

\* createRollupPrepareTransactionRequest answers, or rejects to main().catch.
DeployRawPrepareTx ==
  /\ script = "deploy-raw" /\ pc = "prepareTx"
  /\ calls' = Append(calls, "createRollupPrepareTransactionRequest")
  /\ \/ Goto("send", {})
     \/ Exit(1, {"Deployment failed",
                 "createRollupPrepareTransactionRequest threw"})
  /\ UNCHANGED <<argv, compose, files, configs, chain, script, env, balance,
                 txHash, receipt, coreContracts, decodedEvent, filename,
                 latestFile, deployment, verifyIdx, requests>>

\* sendTransaction returns the hash of the broadcast transaction, or throws.
DeployRawSend ==
  /\ script = "deploy-raw" /\ pc = "send"
  /\ calls' = Append(calls, "sendTransaction")
  /\ \/ /\ txHash' = NextTxHash
        /\ Goto("wait", {})
     \/ /\ txHash' = 0
        /\ Exit(1, {"Deployment failed", "sendTransaction threw"})
  /\ UNCHANGED <<argv, compose, files, configs, chain, script, env, balance,
                 receipt, coreContracts, decodedEvent, filename, latestFile,
                 deployment, verifyIdx, requests>>

\* waitForTransactionReceipt: the transaction is mined with some receipt of up
\* to MaxScanLogs logs, or the wait throws.  The receipt's status is printed,
\* never branched on.
DeployRawWait ==
  /\ script = "deploy-raw" /\ pc = "wait"
  /\ calls' = Append(calls, "waitForTransactionReceipt")
  /\ \/ \E st \in {"success", "reverted"},
           l \in SeqsUpTo(ScanLogKinds, MaxScanLogs) :
          /\ st = "reverted" => l = <<>>
          /\ receipt' = [status |-> st, logs |-> l, blockNumber |-> txHash]
          /\ chain' = [h \in DOMAIN chain \cup {txHash} |->
                         IF h = txHash THEN receipt' ELSE chain[h]]
          /\ Goto("scan", {"Deployment successful"})
     \/ /\ UNCHANGED <<receipt, chain>>
        /\ Exit(1, {"Deployment failed", "waitForTransactionReceipt threw"})
  /\ UNCHANGED <<argv, compose, files, configs, script, env, balance, txHash,
                 coreContracts, decodedEvent, filename, latestFile, deployment,
                 verifyIdx, requests>>

\* The hex SHA-256 digest of the twelve-address signature string, which is
\* the topic of no event.
RawRollupCreatedTopic ==
  "sha256:RollupCreated(address,address,address,address,address,address,address,address,address,address,address,address)"

\* async log => log.topics[0] === (await rollupCreatedTopic): the call gives
\* a promise of the comparison.
TopicTest(log) == [promise |-> log.topics[1] = RawRollupCreatedTopic]

\* ToBoolean of what the callback returns: a promise is an object, and an
\* object is true whatever it settles to.
ToBoolean(p) == "promise" \in DOMAIN p

\* Array.prototype.find on the logs from position i on: the index of the
\* first log whose callback result is truthy, 0 for undefined.
RECURSIVE FindLog(_, _)
FindLog(logs, i) ==
  IF i > Len(logs) THEN 0
  ELSE IF ToBoolean(TopicTest(logs[i])) THEN i
  ELSE FindLog(logs, i + 1)

\* deploymentInfo, with rawEventData when a log was picked.
RawDeploymentInfo(e, hash, rcpt) ==
  LET info == DeploymentInfo(e, hash, rcpt, Null)
      i == FindLog(rcpt.logs, 1)
  IN  IF i = 0 THEN info
      ELSE [k \in DOMAIN info \cup {"rawEventData"} |->
              IF k = "rawEventData"
              THEN [topics |-> rcpt.logs[i].topics, data |-> rcpt.logs[i].data]
              ELSE info[k]]

\* "Parsing deployment events" up to the Deployment Summary, which prints
\* JSON.stringify(deploymentInfo, null, 2) with its nativeToken line.
DeployRawFindLog ==
  /\ script = "deploy-raw" /\ pc = "scan"
  /\ deployment' = RawDeploymentInfo(env, txHash, receipt)
  /\ Goto("persist",
          (IF FindLog(receipt.logs, 1) # 0
           THEN {"Found RollupCreated event"} ELSE {})
            \cup {"Deployment Summary:", SummaryNativeToken(deployment')})
  /\ UNCHANGED <<argv, compose, files, configs, chain, script, env, calls,
                 balance, txHash, receipt, coreContracts, decodedEvent,
                 filename, latestFile, verifyIdx, requests>>

\* "Save deployment info", "Next Steps", and main() returns: status 0; a
\* write that throws goes to main().catch.
DeployRawPersist ==
  /\ script = "deploy-raw" /\ pc = "persist"
  /\ calls' = Append(calls, "writeFileSync deployment")
  /\ \E stamp \in Stamps :
       /\ filename' = DeploymentKey(env, stamp)
       /\ \/ /\ files' = writeFileSync(files, filename', deployment)
             /\ Exit(0, {"Deployment info saved", "Next Steps"})
          \/ /\ UNCHANGED files
             /\ Exit(1, {"Deployment failed", "writeFileSync threw"})
  /\ UNCHANGED <<argv, compose, configs, chain, script, env, balance, txHash,
                 receipt, coreContracts, decodedEvent, latestFile, deployment,
                 verifyIdx, requests>>

NextRaw ==
  \/ DeployRawValidate \/ DeployRawGetBalance \/ DeployRawPrepareConfig
  \/ DeployRawPrepareTx \/ DeployRawSend \/ DeployRawWait
  \/ DeployRawFindLog \/ DeployRawPersist

SpecRaw == InitRaw /\ [][NextRaw]_vars

(***************************************************************************)
(* The node configuration under the DA provider variables: a deployment    *)
(* whose transaction was just mined with its RollupCreated log, run with   *)
(* any setting of the DA_PROVIDER_* variables.                             *)
(***************************************************************************)
DaEnvs ==
  {[ScanEnv EXCEPT !.DA_PROVIDER_ENABLE = en, !.DA_PROVIDER_URL = url,
                   !.DA_PROVIDER_RETRIES = re, !.DA_PROVIDER_RETRY_ERRORS = er,
                   !.DA_PROVIDER_ARG_LOG_LIMIT = al,
                   !.DA_PROVIDER_WS_MESSAGE_SIZE_LIMIT = ws,
                   !.PARENT_CHAIN_ID = pid, !.VALIDATOR_ADDRESSES = va,
                   !.BATCH_POSTER_ADDRESS = bp] :
     pid \in {Unset, "11155111", "421614"},
     va \in {Unset, "", "0xA1, 0xA2", ","},
     bp \in {Unset, "0xB1"},
     en \in {Unset, "true", "false"},
     url \in {Unset, "", "http://localhost:26657"},
     re \in {Unset, "5", "abc"},
     er \in {Unset, "timeout"},
     al \in {Unset, "4096"},
     ws \in {Unset, "536870912"}}

InitNode ==
  /\ receipt = [status |-> "success", logs |-> <<RollupCreatedLog(1)>>,
                blockNumber |-> 1]
  /\ chain = [h \in {1} |-> receipt]
  /\ files = EmptyFn
  /\ configs = EmptyFn
  /\ script = "deploy"
  /\ pc = "scan"
  /\ env \in DaEnvs
  /\ calls = <<"getBalance", "createRollupPrepareDeploymentParamsConfig",
               "createRollupPrepareTransactionRequest", "sendTransaction",
               "waitForTransactionReceipt">>
  /\ out = {"  Native Token: " \o NativeTokenDisplay(NativeToken),
            "Deployment successful"}
  /\ exitCode = -1
  /\ balance = MIN_BALANCE
  /\ txHash = 1
  /\ coreContracts = Null
  /\ decodedEvent = Null
  /\ filename = Null
  /\ latestFile = Null
  /\ deployment = Null
  /\ verifyIdx = 0
  /\ requests = <<>>
  /\ argv = <<>>
  /\ compose = EmptyFn

NextNode ==
  DeployScanLogs \/ DeployRefetchSettles \/ DeployPersist \/ DeployNodeConfig

SpecNode == InitNode /\ [][NextNode]_vars

(***************************************************************************)
(* generate-docker-compose.                                                *)
(* Here a key of configs with chain id 0 holds a file name verbatim, and   *)
(* a file holds the object JSON.parse gives for it.                        *)
(***************************************************************************)
Undefined == "undefined"   \* a JavaScript value that is undefined

\* args.indexOf(a): the first position of a, counted from 0, or -1.
indexOf(args, a) ==
  IF \E i \in 1..Len(args) : args[i] = a
  THEN (CHOOSE i \in 1..Len(args) :
          args[i] = a /\ \A j \in 1..(i - 1) : args[j] # a) - 1
  ELSE -1

\* i !== -1 ? args[i + 1] : dflt, for i = args.indexOf(flag).
ArgAfter(args, flag, dflt) ==
  LET i == indexOf(args, flag)
  IN  IF i = -1 THEN dflt
      ELSE IF i + 2 <= Len(args) THEN args[i + 2] ELSE Undefined

\* "Handle TLS flag"
EnableCoreTls(args) == indexOf(args, "--celestia-disable-core-tls") = -1

\* "Parse command line arguments": the paths and the options handed on.
ParseArgs(args) ==
  [configPath |-> ArgAfter(args, "--config", "./config/nodeConfig.json"),
   outputPath |-> ArgAfter(args, "--output", "./docker-compose.yml"),
   celestiaNamespace |-> ArgAfter(args, "--celestia-namespace", Undefined),
   celestiaRpcEndpoint |-> ArgAfter(args, "--celestia-rpc", Undefined),
   celestiaAuthToken |-> ArgAfter(args, "--celestia-auth-token", Undefined),
   celestiaCoreNetwork |-> ArgAfter(args, "--celestia-core-network", Undefined),
   celestiaCoreToken |-> ArgAfter(args, "--celestia-core-token", Undefined),
   celestiaCoreUrl |-> ArgAfter(args, "--celestia-core-url", Undefined),
   celestiaEnableCoreTls |-> EnableCoreTls(args),
   celestiaKeyPath |-> ArgAfter(args, "--celestia-key-path", Undefined),
   nitroImage |-> ArgAfter(args, "--nitro-image", Undefined),
   celestiaServerImage |-> ArgAfter(args, "--celestia-image", Undefined),
   containerName |-> ArgAfter(args, "--container-name", Undefined)]

\* The name of a file of config/.
ConfigFileName(k) ==
  IF k[2] = 0 THEN k[1] ELSE k[1] \o "-" \o ToString(k[2]) \o ".json"

startsWith(s, p) == Len(s) >= Len(p) /\ SubSeq(s, 1, Len(p)) = p
endsWith(s, p) == Len(s) >= Len(p) /\ SubSeq(s, Len(s) - Len(p) + 1, Len(s)) = p

\* (f.startsWith('node-config') || f.startsWith('nodeConfig')) && f.endsWith('.json')
IsNodeConfigFile(f) ==
  (startsWith(f, "node-config") \/ startsWith(f, "nodeConfig")) /\ endsWith(f, ".json")

ConfigDir == "./config"

\* fs.existsSync(path), for the files of config/.
existsSync(dir, path) ==
  \E k \in DOMAIN dir : path = ConfigDir \o "/" \o ConfigFileName(k)

\* fs.readFileSync(path) and JSON.parse.
ReadConfig(dir, path) ==
  dir[CHOOSE k \in DOMAIN dir : path = ConfigDir \o "/" \o ConfigFileName(k)]

\* nodeConfigFiles of "Smart config file detection".
NodeConfigFiles(dir) ==
  {ConfigFileName(k) : k \in {x \in DOMAIN dir : IsNodeConfigFile(ConfigFileName(x))}}

\* Whether the detection looks into config/ at all.
Detects(dir, configPath) ==
  ~existsSync(dir, configPath) /\ configPath = "./config/nodeConfig.json"

\* finalConfigPath after the detection.
FinalConfigPath(dir, configPath) ==
  IF Detects(dir, configPath) /\ Cardinality(NodeConfigFiles(dir)) = 1
  THEN ConfigDir \o "/" \o (CHOOSE f \in NodeConfigFiles(dir) : TRUE)
  ELSE configPath

\* crypto.createHash('sha256').update(s).digest('hex'), for the strings hashed here.
sha256(s) ==
  CASE s = "orbit-100" ->
         "bc879bd3c70f6181cf0b84da04a0b6f2752a942755b917d5509664eaa4707ed0"
    [] s = "orbit-200" ->
         "9507b3554a3f2f87c7d459c95b90da1f67e50176d63ab6f8ba1ad7c2e6d7e85a"
    [] s = "orbit-412346" ->
         "79a2a85486a061d18b27c8b401927e0e3b0850252535bf0a587fac20091adaee"

\* !x for a string or undefined.
Falsy(x) == x = Undefined \/ x = ""

\* x || dflt
OrElse(x, dflt) == IF Falsy(x) THEN dflt ELSE x

\* A namespace derived from the chain id and the core network option.
CelestiaNamespace_mut(nodeConfig, options) ==
  IF Falsy(options.celestiaNamespace)
  THEN "0x" \o SubSeq(sha256("orbit-" \o ToString(
                        IF Falsy(options.celestiaCoreNetwork)
                        THEN nodeConfig.chain.id ELSE 412346)), 1, 20)
  ELSE options.celestiaNamespace

\* "Auto-generate namespace if not provided": 10 bytes = 20 hex chars.
CelestiaNamespace(nodeConfig, options) ==
  IF Falsy(options.celestiaNamespace)
  THEN "0x" \o SubSeq(sha256("orbit-" \o ToString(nodeConfig.chain.id)), 1, 20)
  ELSE options.celestiaNamespace

\* name.toLowerCase().replace(/\s+/g, '-'), for the chain names written here.
Slug(name) ==
  CASE name = "My Orbit Chain" -> "my-orbit-chain"
    [] name = "Orbit B" -> "orbit-b"
    [] OTHER -> name

\* "Build celestia server entrypoint"
CelestiaEntrypoint(nodeConfig, options) ==
  LET ns == CelestiaNamespace(nodeConfig, options)
      coreToken == OrElse(options.celestiaCoreToken, "")
      coreUrl == OrElse(options.celestiaCoreUrl, "")
  IN  <<"/bin/celestia-server", "--celestia.experimental-tx-client",
        "--celestia.core-network", OrElse(options.celestiaCoreNetwork, "mocha-4")>>
      \o (IF coreToken # "" THEN <<"--celestia.core-token", coreToken>> ELSE <<>>)
      \o (IF coreUrl # "" THEN <<"--celestia.core-url", coreUrl>> ELSE <<>>)
      \o (IF options.celestiaEnableCoreTls # FALSE
          THEN <<"--celestia.enable-core-tls">> ELSE <<>>)
      \o <<"--celestia.with-writer", "--celestia.namespace-id",
           IF startsWith(ns, "0x") THEN SubSeq(ns, 3, Len(ns)) ELSE ns,
           "--rpc-addr", "0.0.0.0", "--rpc-port", "26657", "--celestia.rpc",
           OrElse(options.celestiaRpcEndpoint, "http://0.0.0.0:26658/"),
           "--log-level", "DEBUG">>
      \o <<"--celestia.auth-token", OrElse(options.celestiaAuthToken, "")>>

\* "Add celestia-server volumes if key path is provided": the mount of the
\* celestia-server service and the entry set in dockerCompose.volumes.
KeyVolumes(options) ==
  IF ~Falsy(options.celestiaKeyPath)
  THEN [mount |-> <<options.celestiaKeyPath \o ":/home/celestia/">>,
        declared |-> {"celestia-keys"}]
  ELSE [mount |-> <<"celestia-keys:/home/celestia/">>,
        declared |-> {"celestia-keys"}]

\* nodeConfig.http?.port || 8547: a missing http, a missing port and port 0
\* all give the default.
HttpPort(nodeConfig) ==
  IF "http" \notin DOMAIN nodeConfig THEN 8547
  ELSE IF "port" \notin DOMAIN nodeConfig.http THEN 8547
  ELSE IF nodeConfig.http.port = 0 THEN 8547
  ELSE nodeConfig.http.port

\* "Build the Docker Compose config", then "Add celestia-server volumes"; the
\* images and the container name take their defaults by destructuring, that
\* is only when the option is undefined.
DockerCompose(nodeConfig, nodeConfigPath, options) ==
  [services |->
     ("nitro-celestia-node" :>
        [image |-> IF options.nitroImage = Undefined
                   THEN "ghcr.io/celestiaorg/nitro:v3.6.8"
                   ELSE options.nitroImage,
         container_name |->
           IF options.containerName # Undefined THEN options.containerName
           ELSE "orbit-" \o Slug(nodeConfig.chain.name),
         depends_on |-> <<"celestia-server">>,
         ports |-> <<"8547:" \o
                       ToString(HttpPort(nodeConfig)),
                     "8548:8548", "9642:9642", "6070:6070">>,
         volumes |-> <<nodeConfigPath \o ":/home/user/nodeConfig.json:ro",
                       "node-data:/home/user/.arbitrum/local/nitro">>,
         command |-> <<"--conf.file", "/home/user/nodeConfig.json">>]) @@
     ("celestia-server" :>
        [image |-> IF options.celestiaServerImage = Undefined
                   THEN "ghcr.io/celestiaorg/nitro-das-celestia:v0.6.3-mocha"
                   ELSE options.celestiaServerImage,
         container_name |-> "celestia-server",
         entrypoint |-> CelestiaEntrypoint(nodeConfig, options),
         ports |-> <<"1317:1317", "9090:9090", "26657:26657", "1095:1095",
                     "8080:8080">>,
         volumes |-> KeyVolumes(options).mount]),
   volumes |-> {"node-data"} \cup KeyVolumes(options).declared]

\* list.map(x => prefix + x + suffix)
MapLines(list, prefix, suffix) ==
  [i \in 1..Len(list) |-> prefix \o list[i] \o suffix]

\* The descriptor as text, line by line (the comment header left out).
generateYaml(config) ==
  <<"services:", "  nitro-celestia-node:",
    "    image: " \o config.services["nitro-celestia-node"].image,
    "    container_name: " \o config.services["nitro-celestia-node"].container_name,
    "    depends_on:">>
  \o MapLines(config.services["nitro-celestia-node"].depends_on, "      - ", "")
  \o <<"    ports:">>
  \o MapLines(config.services["nitro-celestia-node"].ports, "      - \"", "\"")
  \o <<"    volumes:">>
  \o MapLines(config.services["nitro-celestia-node"].volumes, "      - ", "")
  \o <<"    command:">>
  \o MapLines(config.services["nitro-celestia-node"].command, "      - ", "")
  \o <<"", "  celestia-server:",
       "    image: " \o config.services["celestia-server"].image,
       "    container_name: " \o config.services["celestia-server"].container_name,
       "    entrypoint:">>
  \o MapLines(config.services["celestia-server"].entrypoint, "      - \"", "\"")
  \o <<"    ports:">>
  \o MapLines(config.services["celestia-server"].ports, "      - \"", "\"")
  \o (IF Len(config.services["celestia-server"].volumes) > 0
      THEN <<"    volumes:">>
           \o MapLines(config.services["celestia-server"].volumes, "      - ", "")
      ELSE <<>>)
  \o <<"", "volumes:", "  node-data:">>
  \o (IF "celestia-keys" \in config.volumes THEN <<"  celestia-keys:">> ELSE <<>>)

\* The long spelling alone.
HelpRequested_mut(args) == indexOf(args, "--help") # -1

\* args.includes('--help') || args.includes('-h')
HelpRequested(args) == indexOf(args, "--help") # -1 \/ indexOf(args, "-h") # -1

\* fs.existsSync('./config'): a directory that holds a file exists; one
\* without files is there, empty, or is not there.
ConfigDirExists(dir) == IF DOMAIN dir = {} THEN BOOLEAN ELSE {TRUE}

\* main() up to the try block: help, argument parsing, detection (the
\* directory is listed only when it exists), existence.
ComposeMain ==
  /\ script = "compose" /\ pc = "main"
  /\ LET o == ParseArgs(argv)
         final == FinalConfigPath(configs, o.configPath)
     IN  IF HelpRequested(argv)
         THEN /\ UNCHANGED calls
              /\ Exit(0, {"Usage: tsx generate-docker-compose.ts [options]"})
         ELSE IF Detects(configs, o.configPath)
                 /\ Cardinality(NodeConfigFiles(configs)) > 1
         THEN /\ calls' = Append(calls, "readdirSync")
              /\ Exit(1, {"Error: Multiple config files found",
                          "Please specify which one to use with --config <path>"})
         ELSE /\ \E dirExists \in ConfigDirExists(configs) :
                   calls' = IF Detects(configs, o.configPath) /\ dirExists
                            THEN Append(calls, "readdirSync") ELSE calls
              /\ IF ~existsSync(configs, final)
                 THEN Exit(1, {"Error: nodeConfig.json not found",
                               "Please specify the correct path with --config <path>"})
                 ELSE Goto("generate",
                           IF final # o.configPath THEN {"Found config file"} ELSE {})
  /\ UNCHANGED <<files, configs, chain, script, env, balance, txHash, receipt,
                 coreContracts, decodedEvent, filename, latestFile, deployment,
                 verifyIdx, requests, argv, compose>>

\* What generateDockerCompose throws on before it writes: nodeConfig.chain
\* missing, or no chain name to build the container name from.
GenerateThrows(nodeConfig, options) ==
  \/ "chain" \notin DOMAIN nodeConfig
  \/ options.containerName = Undefined /\ "name" \notin DOMAIN nodeConfig.chain

\* The lines printed after the file is written.
ComposeSummary(nodeConfig, options) ==
  {"Docker Compose file generated successfully",
   "Namespace: " \o CelestiaNamespace(nodeConfig, options)}
  \cup (IF Falsy(options.celestiaNamespace)
        THEN {"Namespace was auto-generated from chain ID"} ELSE {})
  \cup (IF ~Falsy(options.celestiaKeyPath)
        THEN {"Key Path: " \o options.celestiaKeyPath}
        ELSE {"Key Storage: Using Docker volume 'celestia-keys' for persistence"})

\* try { generateDockerCompose(...) } catch { process.exit(1) }; writeFileSync
\* itself may throw (an output path that cannot be written).
ComposeGenerate ==
  /\ script = "compose" /\ pc = "generate"
  /\ LET o == ParseArgs(argv)
         final == FinalConfigPath(configs, o.configPath)
         nodeConfig == ReadConfig(configs, final)
     IN  IF GenerateThrows(nodeConfig, o)
         THEN /\ calls' = Append(calls, "readFileSync")
              /\ UNCHANGED compose
              /\ Exit(1, {"Error generating docker-compose.yml"})
         ELSE /\ calls' = calls \o <<"readFileSync", "writeFileSync">>
              /\ \/ /\ o.outputPath # Undefined
                    /\ compose' = writeFileSync(compose, o.outputPath,
                                    generateYaml(DockerCompose(nodeConfig, final, o)))
                    /\ Exit(0, ComposeSummary(nodeConfig, o))
                 \/ /\ UNCHANGED compose
                    /\ Exit(1, {"Error generating docker-compose.yml"})
  /\ UNCHANGED <<files, configs, chain, script, env, balance, txHash, receipt,
                 coreContracts, decodedEvent, filename, latestFile, deployment,
                 verifyIdx, requests, argv>>

(***************************************************************************)
(* generate-docker-compose, the script that reaches Celestia through an    *)
(* RPC endpoint (the second script of that name). Its main() detects the   *)
(* configuration file as the other one does.                               *)
(***************************************************************************)
\* The argument parsing of main(): the paths and the options handed on.
RpcParseArgs(args) ==
  [configPath |-> ArgAfter(args, "--config", "./config/nodeConfig.json"),
   outputPath |-> ArgAfter(args, "--output", "./docker-compose.yml"),
   celestiaNamespace |-> ArgAfter(args, "--celestia-namespace", Undefined),
   celestiaRpcEndpoint |-> ArgAfter(args, "--celestia-rpc", Undefined),
   celestiaAuthToken |-> ArgAfter(args, "--celestia-auth-token", Undefined),
   nitroImage |-> ArgAfter(args, "--nitro-image", Undefined),
   celestiaServerImage |-> ArgAfter(args, "--celestia-image", Undefined),
   containerName |-> ArgAfter(args, "--container-name", Undefined)]

\* "Build celestia server entrypoint", then "Add auth token if provided".
RpcCelestiaEntrypoint(nodeConfig, options) ==
  LET ns == CelestiaNamespace(nodeConfig, options)
  IN  <<"/bin/celestia-server", "--celestia.namespace-id",
        IF startsWith(ns, "0x") THEN SubSeq(ns, 3, Len(ns)) ELSE ns,
        "--rpc-addr", "0.0.0.0", "--rpc-port", "26657", "--celestia.rpc",
        OrElse(options.celestiaRpcEndpoint, "https://rpc-mocha.pops.one"),
        "--log-level", "INFO">>
      \o (IF ~Falsy(options.celestiaAuthToken)
          THEN <<"--celestia.auth-token", options.celestiaAuthToken>> ELSE <<>>)

\* "Build the Docker Compose config": no volume on celestia-server.
RpcDockerCompose(nodeConfig, nodeConfigPath, options) ==
  [services |->
     ("nitro-celestia-node" :>
        [image |-> IF options.nitroImage = Undefined
                   THEN "ghcr.io/celestiaorg/nitro:v3.6.8"
                   ELSE options.nitroImage,
         container_name |->
           IF options.containerName # Undefined THEN options.containerName
           ELSE "orbit-" \o Slug(nodeConfig.chain.name),
         depends_on |-> <<"celestia-server">>,
         ports |-> <<"8547:" \o ToString(HttpPort(nodeConfig)),
                     "8548:8548", "9642:9642", "6070:6070">>,
         volumes |-> <<nodeConfigPath \o ":/home/user/nodeConfig.json:ro",
                       "node-data:/home/user/.arbitrum/local/nitro">>,
         command |-> <<"--conf.file", "/home/user/nodeConfig.json">>]) @@
     ("celestia-server" :>
        [image |-> IF options.celestiaServerImage = Undefined
                   THEN "ghcr.io/celestiaorg/nitro-das-celestia:v0.6.2-mocha"
                   ELSE options.celestiaServerImage,
         container_name |-> "celestia-server",
         entrypoint |-> RpcCelestiaEntrypoint(nodeConfig, options),
         ports |-> <<"1317:1317", "9090:9090", "26657:26657", "1095:1095",
                     "8080:8080">>]),
   volumes |-> {"node-data"}]

\* The descriptor as text, line by line (the comment header left out); the
\* text ends with the ports of celestia-server and an empty line, the volumes
\* of the descriptor are not rendered.
RpcGenerateYaml(config) ==
  <<"services:", "  nitro-celestia-node:",
    "    image: " \o config.services["nitro-celestia-node"].image,
    "    container_name: " \o config.services["nitro-celestia-node"].container_name,
    "    depends_on:">>
  \o MapLines(config.services["nitro-celestia-node"].depends_on, "      - ", "")
  \o <<"    ports:">>
  \o MapLines(config.services["nitro-celestia-node"].ports, "      - \"", "\"")
  \o <<"    volumes:">>
  \o MapLines(config.services["nitro-celestia-node"].volumes, "      - ", "")
  \o <<"    command:">>
  \o MapLines(config.services["nitro-celestia-node"].command, "      - ", "")
  \o <<"", "  celestia-server:",
       "    image: " \o config.services["celestia-server"].image,
       "    container_name: " \o config.services["celestia-server"].container_name,
       "    entrypoint:">>
  \o MapLines(config.services["celestia-server"].entrypoint, "      - \"", "\"")
  \o <<"    ports:">>
  \o MapLines(config.services["celestia-server"].ports, "      - \"", "\"")

\* The lines printed after the file is written.
RpcComposeSummary(nodeConfig, options) ==
  {"Docker Compose file generated successfully",
   "Celestia Namespace: " \o CelestiaNamespace(nodeConfig, options),
   "Celestia RPC: " \o OrElse(options.celestiaRpcEndpoint, "https://rpc-mocha.pops.one")}
  \cup (IF Falsy(options.celestiaNamespace)
        THEN {"Namespace was auto-generated from chain ID"} ELSE {})
  \cup (IF ~Falsy(options.celestiaAuthToken)
        THEN {"Celestia Auth Token: "
                \o (IF Len(options.celestiaAuthToken) <= 20
                    THEN options.celestiaAuthToken
                    ELSE SubSeq(options.celestiaAuthToken, 1, 20)) \o "..."}
        ELSE {})
  \cup (IF Falsy(options.celestiaRpcEndpoint)
        THEN {"WARNING: No Celestia RPC endpoint provided!",
              "Using default public endpoint: https://rpc-mocha.pops.one"}
        ELSE {})

\* main() up to the try block: help, argument parsing, detection (the
\* directory is listed only when it exists), existence.
RpcComposeMain ==
  /\ script = "compose-rpc" /\ pc = "main"
  /\ LET o == RpcParseArgs(argv)
         final == FinalConfigPath(configs, o.configPath)
     IN  IF HelpRequested(argv)
         THEN /\ UNCHANGED calls
              /\ Exit(0, {"Usage: tsx generate-docker-compose.ts [options]"})
         ELSE IF Detects(configs, o.configPath)
                 /\ Cardinality(NodeConfigFiles(configs)) > 1
         THEN /\ calls' = Append(calls, "readdirSync")
              /\ Exit(1, {"Error: Multiple config files found",
                          "Please specify which one to use with --config <path>"})
         ELSE /\ \E dirExists \in ConfigDirExists(configs) :
                   calls' = IF Detects(configs, o.configPath) /\ dirExists
                            THEN Append(calls, "readdirSync") ELSE calls
              /\ IF ~existsSync(configs, final)
                 THEN Exit(1, {"Error: nodeConfig.json not found",
                               "Please specify the correct path with --config <path>"})
                 ELSE Goto("generate",
                           IF final # o.configPath THEN {"Found config file"} ELSE {})
  /\ UNCHANGED <<files, configs, chain, script, env, balance, txHash, receipt,
                 coreContracts, decodedEvent, filename, latestFile, deployment,
                 verifyIdx, requests, argv, compose>>

\* try { generateDockerCompose(...) } catch { process.exit(1) }; writeFileSync
\* itself may throw (an output path that cannot be written).
RpcComposeGenerate ==
  /\ script = "compose-rpc" /\ pc = "generate"
  /\ LET o == RpcParseArgs(argv)
         final == FinalConfigPath(configs, o.configPath)
         nodeConfig == ReadConfig(configs, final)
     IN  IF GenerateThrows(nodeConfig, o)
         THEN /\ calls' = Append(calls, "readFileSync")
              /\ UNCHANGED compose
              /\ Exit(1, {"Error generating docker-compose.yml"})
         ELSE /\ calls' = calls \o <<"readFileSync", "writeFileSync">>
              /\ \/ /\ o.outputPath # Undefined
                    /\ compose' = writeFileSync(compose, o.outputPath,
                                    RpcGenerateYaml(RpcDockerCompose(nodeConfig, final, o)))
                    /\ Exit(0, RpcComposeSummary(nodeConfig, o))
                 \/ /\ UNCHANGED compose
                    /\ Exit(1, {"Error generating docker-compose.yml"})
  /\ UNCHANGED <<files, configs, chain, script, env, balance, txHash, receipt,
                 coreContracts, decodedEvent, filename, latestFile, deployment,
                 verifyIdx, requests, argv>>

\* The files config/ may hold: nodeConfig.json, the node configuration of a
\* deployment under either spelling (one with http port 0, one with an http
\* object that names no port), the chain file of parse-deployment,
\* which has no chain object, and a backup copy.
ComposeConfigFiles ==
  (<<"nodeConfig.json", 0>> :>
     [chain |-> [id |-> 100, name |-> "My Orbit Chain"], http |-> [port |-> 8449]])
  @@ (<<"node-config", 100>> :>
        [chain |-> [id |-> 100, name |-> "Orbit B"], http |-> [port |-> 0]])
  @@ (<<"nodeConfig", 200>> :>
        [chain |-> [id |-> 200, name |-> "Orbit B"], http |-> [addr |-> "0.0.0.0"]])
  @@ (<<"chain", 100>> :> [chainId |-> 100, chainName |-> "Orbit B"])
  @@ (<<"node-config-100.json.bak", 0>> :>
        [chain |-> [id |-> 100, name |-> "Orbit B"]])

\* Command lines: each option given or not, --config last.
ComposeArgs ==
  {h \o ns \o kp \o cn \o tls \o im \o op \o cp :
     h \in {<<>>, <<"--help">>, <<"-h">>},
     ns \in {<<>>, <<"--celestia-namespace", "0x1234567890abcdef1234">>,
             <<"--celestia-namespace", "00000000000000c0ffee">>},
     kp \in {<<>>, <<"--celestia-key-path", "./celestia-keys">>},
     cn \in {<<>>, <<"--celestia-core-network", "celestia">>},
     tls \in {<<>>, <<"--celestia-disable-core-tls">>},
     im \in {<<>>, <<"--nitro-image", "">>},
     op \in {<<>>, <<"--output", "./out/docker-compose.yml">>},
     cp \in {<<>>, <<"--config", "./config/node-config-100.json">>,
             <<"--config", "./config/chain-100.json">>, <<"--config">>}}

\* Command lines of the RPC script: each option given or not.
RpcComposeArgs ==
  {h \o ns \o rpc \o tok \o im \o op \o cp :
     h \in {<<>>, <<"--help">>},
     ns \in {<<>>, <<"--celestia-namespace", "0x1234567890abcdef1234">>},
     rpc \in {<<>>, <<"--celestia-rpc", "http://celestia:26658">>},
     tok \in {<<>>, <<"--celestia-auth-token", "eyJhbGciOiJIUzI1NiIsInR5cCI6IkpXVCJ9">>},
     im \in {<<>>, <<"--celestia-image", "">>},
     op \in {<<>>, <<"--output">>},
     cp \in {<<>>, <<"--config", "./config/node-config-100.json">>}}

InitCompose ==
  /\ files = EmptyFn
  /\ \E present \in SUBSET DOMAIN ComposeConfigFiles :
       configs = [k \in present |-> ComposeConfigFiles[k]]
  /\ chain = EmptyFn
  /\ pc = "main"
  /\ env = NoEnv
  /\ calls = <<>>
  /\ out = {}
  /\ exitCode = -1
  /\ balance = -1
  /\ txHash = 0
  /\ receipt = Null
  /\ coreContracts = Null
  /\ decodedEvent = Null
  /\ filename = Null
  /\ latestFile = Null
  /\ deployment = Null
  /\ verifyIdx = 0
  /\ requests = <<>>
  /\ \/ script = "compose" /\ argv \in ComposeArgs
     \/ script = "compose-rpc" /\ argv \in RpcComposeArgs
  /\ compose \in {EmptyFn, [p \in {"./docker-compose.yml"} |-> <<"services:">>]}

NextCompose ==
  ComposeMain \/ ComposeGenerate \/ RpcComposeMain \/ RpcComposeGenerate

SpecCompose == InitCompose /\ [][NextCompose]_vars

(***************************************************************************)
(* Properties.                                                             *)
(***************************************************************************)
TxBuildCalls == {"createRollupPrepareTransactionRequest", "sendTransaction"}
NetworkCalls ==
  {"getBalance", "createRollupPrepareDeploymentParamsConfig",
   "createRollupPrepareTransactionRequest", "sendTransaction",
   "waitForTransactionReceipt", "getTransactionReceipt"}

\* C1: a deploy run that read a balance below 0.5 native units has stopped
\* with exit status 1 and has never built or sent the transaction request.
C1_LowBalanceAborts ==
  (script = "deploy" /\ balance >= 0 /\ balance < MIN_BALANCE) =>
     /\ pc = "done"
     /\ exitCode = 1
     /\ "Insufficient balance" \in out
     /\ Range(calls) \cap TxBuildCalls = {}
     /\ txHash = 0

C1_Witness ==
  /\ script = "deploy" /\ pc = "done" /\ exitCode = 1
  /\ balance = MIN_BALANCE - 1
  /\ calls = <<"getBalance">>

\* The errors deploy-orbit's validation throws.
ValidationErrors ==
  {"PRIVATE_KEY not set in .env", "VALIDATOR_PRIVATE_KEY not set in .env",
   "VALIDATOR_PRIVATE_KEY cannot be the same as PRIVATE_KEY or Batchposter Key!",
   "PARENT_CHAIN_RPC not set in .env", "WASM_ROOT not set in .env"}

\* C2: a deploy run started without PRIVATE_KEY, PARENT_CHAIN_RPC or WASM_ROOT
\* (the variable unset or empty)
\* ends at validation: an error is reported, the exit status is 1 and no
\* network call (balance read, config preparation, send, receipt wait) is made.
C2_MissingVarAborts ==
  (/\ script = "deploy" /\ pc # "validate"
   /\ \/ env.PRIVATE_KEY \in {Unset, ""}
      \/ env.PARENT_CHAIN_RPC \in {Unset, ""}
      \/ env.WASM_ROOT \in {Unset, ""}) =>
     /\ pc = "done"
     /\ exitCode = 1
     /\ "Deployment failed" \in out
     /\ out \cap ValidationErrors # {}
     /\ calls = <<>>

C2_Witness ==
  /\ script = "deploy" /\ pc = "done" /\ exitCode = 1
  /\ env.PRIVATE_KEY = "k1" /\ env.VALIDATOR_PRIVATE_KEY = "k2"
  /\ env.PARENT_CHAIN_RPC = "rpc" /\ env.WASM_ROOT = Unset
  /\ "WASM_ROOT not set in .env" \in out
  /\ calls = <<>>

\* The run was started with a configuration error: a required parameter is
\* missing or the validator key repeats the deployer key.
ConfigError ==
  \/ /\ script = "deploy"
     /\ \/ env.PRIVATE_KEY \in {Unset, ""}
        \/ env.PARENT_CHAIN_RPC \in {Unset, ""}
        \/ env.WASM_ROOT \in {Unset, ""}
        \/ env.VALIDATOR_PRIVATE_KEY = env.PRIVATE_KEY
  \/ /\ script = "balance"
     /\ env.PRIVATE_KEY \in {Unset, ""} \/ env.PARENT_CHAIN_RPC \in {Unset, ""}
  \/ /\ script = "parse"
     /\ env.PARENT_CHAIN_RPC \in {Unset, ""}

\* C3: in deploy, check-balance and parse-deployment a run started with a
\* configuration error ends before any I/O with a non-zero exit status.
C3_ConfigErrorFatal ==
  (ConfigError /\ pc # "validate") =>
     /\ pc = "done"
     /\ calls = <<>>
     /\ exitCode > 0

C3_Witness ==
  /\ script = "parse" /\ pc = "done"
  /\ env.PARENT_CHAIN_RPC = Unset
  /\ "PARENT_CHAIN_RPC not set in .env" \in out
  /\ exitCode = 0

\* C4: a deploy run whose environment is complete but for
\* VALIDATOR_PRIVATE_KEY is not rejected for it, and a node configuration it
\* writes carries PRIVATE_KEY as the validator key.
C4_ValidatorKeyOptional ==
  (/\ script = "deploy" /\ pc # "validate"
   /\ env.PRIVATE_KEY \notin {Unset, ""} /\ env.PARENT_CHAIN_RPC \notin {Unset, ""}
   /\ env.WASM_ROOT \notin {Unset, ""}
   /\ env.VALIDATOR_PRIVATE_KEY \in {Unset, ""}) =>
     /\ "VALIDATOR_PRIVATE_KEY not set in .env" \notin out
     /\ calls # <<>>
     /\ \A k \in DOMAIN configs :
          (k[1] = "node-config" /\ "Node configuration saved" \in out
             /\ k[2] = ChainIdOf(env)) =>
            configs[k].validatorPrivateKey = env.PRIVATE_KEY

C4_Witness ==
  /\ script = "deploy" /\ pc = "done" /\ exitCode = 1
  /\ env.PRIVATE_KEY = "k1" /\ env.VALIDATOR_PRIVATE_KEY = Unset
  /\ env.PARENT_CHAIN_RPC = "rpc" /\ env.WASM_ROOT = "0xroot"
  /\ "VALIDATOR_PRIVATE_KEY not set in .env" \in out
  /\ calls = <<>>

\* The eleven fields of rollup v's RollupCreated event, as its log encodes them.
EncodedFields(v) ==
  [n \in Range(EventInputs) |->
     IF n = "nativeToken" THEN ZeroAddress
     ELSE v * 100 + (CHOOSE j \in 1..Len(EventInputs) : EventInputs[j] = n)]

\* logs[p] is rollup v's RollupCreated log and no other log matches the schema.
SoleMatch(logs, p, v) ==
  /\ logs[p] = RollupCreatedLog(v)
  /\ \A i \in 1..Len(logs) : i # p => logs[i] \in {UnrelatedLog, TruncatedLog}

\* C5: when exactly one log of the receipt matches the RollupCreated schema,
\* wherever it stands, parse-deployment decodes its eleven fields and writes a
\* contracts mapping whose every role is the field of that log, and the
\* mapping deploy-orbit finds holds that log's fields too.
C5_SoleMatchExtracted ==
  \A v \in {1, 2} : \A p \in 1..Len(chain[1].logs) :
    SoleMatch(chain[1].logs, p, v) =>
      LET F == EncodedFields(v)
      IN  /\ (script = "parse" /\ pc = "done" /\ ~IsNull(receipt)) =>
                /\ ~IsNull(decodedEvent)
                /\ "Parsing complete" \in out \/ "writeFileSync threw" \in out
          /\ (script = "parse" /\ ~IsNull(decodedEvent)) =>
                /\ DOMAIN decodedEvent.args = Range(EventInputs)
                /\ Cardinality(DOMAIN decodedEvent.args) = 11
                /\ decodedEvent.args = F
          /\ (script = "parse" /\ "Updated deployment file" \in out) =>
                files[KeyOf(files, latestFile)].contracts =
                  [rollup |-> F.rollupAddress, inbox |-> F.inboxAddress,
                   outbox |-> F.outbox, adminProxy |-> F.adminProxy,
                   sequencerInbox |-> F.sequencerInbox, bridge |-> F.bridge,
                   validatorWalletCreator |-> F.validatorWalletCreator]
          /\ (script = "deploy" /\ "Found RollupCreated event" \in out) =>
                /\ coreContracts.rollup = F.rollupAddress
                /\ coreContracts.inbox = F.inboxAddress
                /\ \A n \in Range(EventInputs) \ {"rollupAddress", "inboxAddress"} :
                     coreContracts[n] = F[n]
                /\ "Deployment info saved" \in out =>
                     files[filename].contracts = coreContracts

C5_Witness ==
  /\ chain[1].logs = <<UnrelatedLog, RollupCreatedLog(1), UnrelatedLog>>
  /\ script = "parse" /\ pc = "done" /\ "Parsing complete" \in out
  /\ files[KeyOf(files, latestFile)].contracts.outbox = 104

NoMatch(logs) ==
  \A i \in 1..Len(logs) : logs[i] \notin {RollupCreatedLog(1), RollupCreatedLog(2)}

\* The write of the deployment record threw: an unrecovered error, which
\* ends the run through main().catch.
RecordWriteFailed == "writeFileSync threw" \in out

\* C6: when no log of the receipt matches the RollupCreated schema, deploy-orbit
\* goes on: it tells the operator to run parse-deployment, persists the record
\* with an empty contracts mapping and ends with status 0; no record ever
\* gets contracts. The one run that ends otherwise is the one whose write of
\* the record fails, whatever the scan found.
C6_MissNonFatal ==
  NoMatch(chain[1].logs) =>
    /\ \A k \in DOMAIN files : files[k].contracts = EmptyContracts
    /\ (script = "deploy" /\ pc \in {"persist", "nodeConfig", "done"}) =>
          /\ IsNull(coreContracts)
          /\ "Could not parse RollupCreated event" \in out
          /\ "Run npm run parse-deployment" \in out
          /\ pc = "persist" => exitCode = -1
    /\ (script = "deploy" /\ pc \in {"nodeConfig", "done"}
          /\ ~RecordWriteFailed) =>
          /\ filename \in DOMAIN files
          /\ files[filename].transactionHash = txHash
          /\ files[filename].contracts = EmptyContracts
          /\ "Deployment info saved" \in out
    /\ (script = "deploy" /\ pc = "done") =>
          exitCode = IF RecordWriteFailed THEN 1 ELSE 0

C6_Witness ==
  /\ chain[1].logs = <<UnrelatedLog, TruncatedLog>>
  /\ script = "deploy" /\ pc = "done" /\ exitCode = 0
  /\ filename \in DOMAIN files
  /\ files[filename].contracts = EmptyContracts
  /\ "Run npm run parse-deployment" \in out

\* C7: the step that persists a deployment record writes a file that did not
\* exist and leaves every file written before as it was.
C7_PersistNeverOverwrites ==
  [][(script = "deploy" /\ pc = "persist") =>
       /\ filename' \notin DOMAIN files
       /\ \A k \in DOMAIN files : files'[k] = files[k]]_vars

C7_Witness ==
  /\ script = "deploy" /\ pc = "done" /\ exitCode = 0
  /\ Cardinality(DOMAIN chain) = 2
  /\ DOMAIN files = {filename}
  /\ files[filename].transactionHash = 2

\* C8: the file the lookup of parse-deployment and verify-contracts selects
\* carries the latest timestamp of the directory, whatever its chain id.
C8_LatestIsNewest ==
  (script \in {"parse", "verify"} /\ ~IsNull(latestFile)) =>
     \A k \in DOMAIN files : k[2] <= KeyOf(files, latestFile)[2]

C8_Witness ==
  /\ script = "verify" /\ pc = "loaded"
  /\ DOMAIN files = {<<200, 10>>, <<100, 11>>}
  /\ latestFile = FileName(200, 10)

\* C9: with no deployment file available, a parse-deployment or
\* verify-contracts run that gets to the lookup ends there: "No deployment
\* files found", "Run npm run deploy first", exit status 1, and no network
\* call or HTTP request made.
C9_NoFileNotFound ==
  (/\ DOMAIN files = {}
   /\ \/ script = "parse" /\ env.PARENT_CHAIN_RPC \notin {Unset, ""}
      \/ script = "verify" /\ env.ETHERSCAN_API_KEY \notin {Unset, ""}
   /\ pc \notin {"validate", "findLatest"}) =>
     /\ pc = "done"
     /\ exitCode = 1
     /\ "No deployment files found" \in out
     /\ "Run npm run deploy first" \in out
     /\ Range(calls) \cap NetworkCalls = {}
     /\ requests = <<>>
     /\ IsNull(latestFile)

\* A parse-deployment run before any deployment, deployments/ not there: the
\* lookup threw, no not-found message and no guidance, status 0.
C9_Witness ==
  /\ script = "parse" /\ pc = "done" /\ exitCode = 0
  /\ DOMAIN files = {}
  /\ calls = <<"readdirSync">>
  /\ "readdirSync threw" \in out
  /\ "No deployment files found" \notin out
  /\ "Run npm run deploy first" \notin out

\* The same for verify-contracts.
C9_WitnessVerify ==
  /\ script = "verify" /\ pc = "done" /\ exitCode = 0
  /\ DOMAIN files = {}
  /\ calls = <<"readdirSync">>
  /\ "readdirSync threw" \in out
  /\ "No deployment files found" \notin out

\* What the scripts do keep: a lookup that could list the directory and found
\* no record ends the run with both messages and status 1, and in either case
\* nothing is asked of the network.
C9_ListedDirectoryNotFound ==
  (/\ DOMAIN files = {}
   /\ \/ script = "parse" /\ env.PARENT_CHAIN_RPC \notin {Unset, ""}
      \/ script = "verify" /\ env.ETHERSCAN_API_KEY \notin {Unset, ""}
   /\ pc \notin {"validate", "findLatest"}) =>
     /\ pc = "done"
     /\ Range(calls) \cap NetworkCalls = {}
     /\ requests = <<>>
     /\ IsNull(latestFile)
     /\ IF "readdirSync threw" \in out
        THEN /\ exitCode = 0
             /\ "No deployment files found" \notin out
        ELSE /\ exitCode = 1
             /\ "No deployment files found" \in out
             /\ "Run npm run deploy first" \in out

\* C10: a parse-deployment run that rewrites a record which already has
\* contracts leaves the contracts mapping of the file as it was.
C10_ReconcileIdempotent ==
  [][(script = "parse" /\ pc = "write"
        /\ files[KeyOf(files, latestFile)].contracts # EmptyContracts) =>
       files'[KeyOf(files, latestFile)].contracts =
         files[KeyOf(files, latestFile)].contracts]_vars

C10_Witness ==
  /\ script = "parse" /\ pc = "done" /\ "Parsing complete" \in out
  /\ DOMAIN deployment.contracts =
       {"rollup", "inbox", "outbox", "adminProxy", "sequencerInbox", "bridge",
        "validatorWalletCreator"}
  /\ \E k \in DOMAIN configs :
       /\ k[1] = "node-config"
       /\ configs[k].rollup = deployment.contracts.rollup

\* C11: the step in which parse-deployment writes the record back keeps the
\* set of files under deployments/, touches no file but the one it read, and
\* in that file changes no field other than contracts.
C11_ParseRewritesInPlace ==
  [][(script = "parse" /\ pc = "write") =>
       LET t == KeyOf(files, latestFile)
       IN  /\ DOMAIN files' = DOMAIN files
           /\ \A k \in DOMAIN files \ {t} : files'[k] = files[k]
           /\ DOMAIN files'[t] = DOMAIN files[t]
           /\ \A f \in DOMAIN files[t] \ {"contracts"} : files'[t][f] = files[t][f]
           /\ files[t] = deployment]_vars

C11_Witness ==
  /\ script = "parse" /\ pc = "done" /\ "Parsing complete" \in out
  /\ Cardinality(DOMAIN files) = 2
  /\ files[KeyOf(files, latestFile)] = deployment
  /\ deployment.contracts # EmptyContracts

\* The deploy run has written its node configuration.
ConfigWritten ==
  script = "deploy" /\ pc = "done" /\ "Node configuration saved" \in out

WrittenNode == configs[<<"node-config", ChainIdOf(env)>>].node

\* C12: the DA block of a written node configuration is enabled with a
\* writer; retries, retry-errors, arg-log-limit and
\* websocket-message-size-limit are 3, the documented pattern, 2048 and
\* 268435456 when their variable is unset, and the variable's value when it
\* is set, each field following its own variable only.
C12_DaBlockDefaults ==
  ConfigWritten =>
    LET b == WrittenNode["da-provider"]
    IN  /\ b.enable = TRUE
        /\ b.withWriter = TRUE
        /\ env.DA_PROVIDER_RETRIES = Unset => b.rpc.retries = 3
        /\ env.DA_PROVIDER_RETRIES = "5" => b.rpc.retries = 5
        /\ b.rpc.retryErrors =
             IF env.DA_PROVIDER_RETRY_ERRORS = Unset
             THEN "websocket: close.*|dial tcp .*|.*i/o timeout|.*connection reset by peer|.*connection refused"
             ELSE env.DA_PROVIDER_RETRY_ERRORS
        /\ b.rpc.argLogLimit =
             IF env.DA_PROVIDER_ARG_LOG_LIMIT = Unset THEN 2048 ELSE 4096
        /\ b.rpc.websocketMessageSizeLimit =
             IF env.DA_PROVIDER_WS_MESSAGE_SIZE_LIMIT = Unset THEN 268435456
             ELSE 536870912

C12_Witness ==
  /\ ConfigWritten
  /\ env.DA_PROVIDER_ENABLE = "true"
  /\ env.DA_PROVIDER_RETRIES = Unset /\ env.DA_PROVIDER_RETRY_ERRORS = Unset
  /\ env.DA_PROVIDER_ARG_LOG_LIMIT = Unset
  /\ env.DA_PROVIDER_WS_MESSAGE_SIZE_LIMIT = Unset
  /\ WrittenNode["da-provider"].rpc.retries = 3
  /\ WrittenNode["da-provider"].rpc.websocketMessageSizeLimit = 268435456

\* A DA endpoint is configured: the integration is switched on or a URL given.
DaConfigured ==
  env.DA_PROVIDER_ENABLE = "true" \/ env.DA_PROVIDER_URL \notin {Unset, ""}

\* C13: a written node configuration holds a DA-provider block exactly when a
\* DA endpoint is configured.
C13_DaBlockOnlyWhenConfigured ==
  ConfigWritten => ("da-provider" \in DOMAIN WrittenNode <=> DaConfigured)

C13_Witness ==
  /\ ConfigWritten
  /\ env.DA_PROVIDER_ENABLE = Unset /\ env.DA_PROVIDER_URL = Unset
  /\ "da-provider" \in DOMAIN WrittenNode
  /\ WrittenNode["da-provider"].enable = TRUE
  /\ WrittenNode["da-provider"].rpc.url = "http://celestia-server:26657"

\* C14: in every node configuration file written by deploy-orbit, an enabled
\* DA-provider block comes with data-availability disabled and blob reading
\* disabled.
C14_DaExcludesBuiltIn ==
  \A k \in DOMAIN configs :
    (k[1] = "node-config" /\ "da-provider" \in DOMAIN configs[k].node
       /\ configs[k].node["da-provider"].enable) =>
      /\ configs[k].node["data-availability"].enable = FALSE
      /\ configs[k].node["dangerous"].disableBlobReader = TRUE

C14_Witness ==
  /\ ConfigWritten
  /\ WrittenNode["da-provider"].enable = TRUE
  /\ WrittenNode["data-availability"].enable = FALSE
  /\ WrittenNode["dangerous"].disableBlobReader = TRUE

HexDigits == {"0", "1", "2", "3", "4", "5", "6", "7", "8", "9",
              "a", "b", "c", "d", "e", "f"}

IsHex(s) == \A i \in 1..Len(s) : SubSeq(s, i, i) \in HexDigits

\* The run wrote its descriptor.
ComposeWritten ==
  /\ script = "compose" /\ pc = "done" /\ exitCode = 0
  /\ ~HelpRequested(argv)

WrittenYaml == compose[ParseArgs(argv).outputPath]

\* The value following a flag in the entrypoint list of the descriptor text.
EntrypointValue(yaml, flag) ==
  LET i == CHOOSE j \in 1..Len(yaml) : yaml[j] = "      - \"" \o flag \o "\""
  IN  SubSeq(yaml[i + 1], 10, Len(yaml[i + 1]) - 1)

\* Every other generation without a namespace option: any command line of the
\* model, any configuration file having a chain object.
OtherOptions ==
  {ParseArgs(a) : a \in {x \in ComposeArgs : indexOf(x, "--celestia-namespace") = -1}}

OtherConfigs ==
  {ComposeConfigFiles[k] :
     k \in {x \in DOMAIN ComposeConfigFiles : "chain" \in DOMAIN ComposeConfigFiles[x]}}

GeneratedFor(id) ==
  {CelestiaNamespace(c, o) : c \in {x \in OtherConfigs : x.chain.id = id},
                             o \in OtherOptions}

\* C15: a descriptor written without a namespace option carries, as the
\* namespace id of the DA server, exactly 20 hex characters, and they are the
\* ones every generation for the same chain id gives (0x-prefixed), whatever
\* the chain name, the configuration file and the other options are.
C15_NamespaceFromChainIdAlone ==
  (ComposeWritten /\ indexOf(argv, "--celestia-namespace") = -1) =>
    LET id == ReadConfig(configs,
                FinalConfigPath(configs, ParseArgs(argv).configPath)).chain.id
        ns == EntrypointValue(WrittenYaml, "--celestia.namespace-id")
    IN  /\ Len(ns) = 20
        /\ IsHex(ns)
        /\ GeneratedFor(id) = {"0x" \o ns}
        /\ "Namespace: 0x" \o ns \in out

C15_Witness ==
  /\ ComposeWritten
  /\ indexOf(argv, "--celestia-namespace") = -1
  /\ indexOf(argv, "--celestia-core-network") # -1
  /\ indexOf(argv, "--celestia-key-path") # -1
  /\ EntrypointValue(WrittenYaml, "--celestia.namespace-id") = "bc879bd3c70f6181cf0b"

KeyPathOf(args) == ParseArgs(args).celestiaKeyPath

\* C16: a written descriptor mounts, without a key path, the named volume
\* celestia-keys into the DA server and declares that volume; with a key path
\* it mounts that path instead and declares no key volume.
C16_KeyVolumeOrBindMount ==
  ComposeWritten =>
    IF Falsy(KeyPathOf(argv))
    THEN /\ "      - celestia-keys:/home/celestia/" \in Range(WrittenYaml)
         /\ "  celestia-keys:" \in Range(WrittenYaml)
    ELSE /\ "      - " \o KeyPathOf(argv) \o ":/home/celestia/" \in Range(WrittenYaml)
         /\ "      - celestia-keys:/home/celestia/" \notin Range(WrittenYaml)
         /\ "  celestia-keys:" \notin Range(WrittenYaml)

\* A descriptor written with a key path: bind mount, and celestia-keys declared.
C16_Witness ==
  /\ ComposeWritten
  /\ KeyPathOf(argv) = "./celestia-keys"
  /\ "      - ./celestia-keys:/home/celestia/" \in Range(WrittenYaml)
  /\ "  celestia-keys:" \in Range(WrittenYaml)

ComposeErrors ==
  {"Error: Multiple config files found", "Error: nodeConfig.json not found",
   "Error generating docker-compose.yml"}

HelpFlag == "--help" \in Range(argv) \/ "-h" \in Range(argv)

\* No --config, no config/nodeConfig.json, and two candidate files.
MultipleCandidates ==
  /\ "--config" \notin Range(argv)
  /\ <<"nodeConfig.json", 0>> \notin DOMAIN configs
  /\ {<<"node-config", 100>>, <<"nodeConfig", 200>>} \subseteq DOMAIN configs

ConfigNotFound ==
  ~existsSync(configs, FinalConfigPath(configs, ParseArgs(argv).configPath))

ConfigUnusable ==
  /\ ~MultipleCandidates /\ ~ConfigNotFound
  /\ "chain" \notin DOMAIN ReadConfig(configs,
                             FinalConfigPath(configs, ParseArgs(argv).configPath))

\* C17: a run of the compose generator (either script) given a help flag ends with the usage
\* printed and status 0, whatever else is on the command line or missing; a
\* run without it that meets two candidate configuration files, no
\* configuration file, or a failure while generating reports that error and
\* ends with status 1; and only a run ending with status 0 changes a compose
\* file.
C17_HelpZeroErrorsNonZero ==
  [][(script \in {"compose", "compose-rpc"} /\ pc' = "done") =>
       /\ HelpFlag =>
            /\ exitCode' = 0
            /\ "Usage: tsx generate-docker-compose.ts [options]" \in out'
            /\ compose' = compose
       /\ (~HelpFlag /\ (MultipleCandidates \/ ConfigNotFound \/ ConfigUnusable)) =>
            out' \cap ComposeErrors # {}
       /\ (out' \cap ComposeErrors # {}) => (exitCode' = 1 /\ compose' = compose)
       /\ (compose' # compose) => exitCode' = 0]_vars

\* A generation that failed, the compose file of an earlier run still as it was.
C17_Witness ==
  /\ script = "compose" /\ pc = "done" /\ exitCode = 1
  /\ "Error generating docker-compose.yml" \in out
  /\ "readFileSync" \in Range(calls)
  /\ compose = [p \in {"./docker-compose.yml"} |-> <<"services:">>]

\* C18: a verify-contracts run without ETHERSCAN_API_KEY does not end in
\* failure: it ends with status 0 and without the fatal error, the contracts
\* skipped one by one.
C18_NoKeySkips ==
  (script = "verify" /\ env.ETHERSCAN_API_KEY \in {Unset, ""} /\ pc = "done") =>
    /\ exitCode = 0
    /\ "ETHERSCAN_API_KEY not set in .env" \notin out

\* The run without a key, ended by process.exit(1) before any file is read.
C18_Witness ==
  /\ script = "verify" /\ env.ETHERSCAN_API_KEY = Unset /\ pc = "done"
  /\ exitCode = 1
  /\ "ETHERSCAN_API_KEY not set in .env" \in out
  /\ calls = <<>>
  /\ verifyIdx = 0

VerifyLogLines ==
  {"Checking verification status failed", "already verified", "Error verifying",
   "verification response", "verified successfully", "verification pending"}

VerifyLoopPcs ==
  {"verifying", "lookup", "lookupBody", "submit", "submitBody", "delay", "poll",
   "pollBody", "pace"}

\* C19: in the loop over the contracts of a verify-contracts run no step
\* ends the run, whatever the lookup, the submission and the poll come to
\* (an answer either way, or a throw): the run stays in the loop with no
\* exit status, on the same contract or one further, and when verifyContract
\* has returned the outcome is logged; the loop is left only after the last
\* contract, to the completion step and exit status 0.
C19_ApiErrorsNeverAbort ==
  [][(script = "verify" /\ pc \in VerifyLoopPcs) =>
       IF pc = "verifying" /\ verifyIdx = Len(ContractsToVerify(deployment))
       THEN /\ pc' = "done" /\ exitCode' = 0
            /\ "Verification Complete" \in out'
            /\ verifyIdx' = verifyIdx
       ELSE /\ pc' \in VerifyLoopPcs /\ exitCode' = -1
            /\ verifyIdx' = IF pc = "pace" /\ pc' # pc THEN verifyIdx + 1
                            ELSE verifyIdx
            /\ pc' = "pace" =>
                 /\ requests'.log # {} /\ requests'.log \subseteq VerifyLogLines
                 /\ requests'.report \in requests'.log]_vars

\* A contract whose lookup threw and whose submission or poll threw, with
\* further contracts still to come.
C19_Witness ==
  /\ script = "verify" /\ pc = "verifying"
  /\ verifyIdx >= 1 /\ verifyIdx < Len(ContractsToVerify(deployment))
  /\ requests.log = {"Checking verification status failed", "Error verifying"}
  /\ exitCode = -1

RECURSIVE ContainsFrom(_, _, _)
ContainsFrom(s, t, i) ==
  IF i + Len(t) - 1 > Len(s) THEN FALSE
  ELSE SubSeq(s, i, i + Len(t) - 1) = t \/ ContainsFrom(s, t, i + 1)

\* The lines of a deploy or parse run that spell out the zero address.
ZeroAddressLines ==
  {m \in out : ContainsFrom(m, "0x0000000000000000000000000000000000000000", 1)}

\* C20: no line printed by a deploy-orbit or parse-deployment run, whose
\* native token is the zero address, spells that address out.
C20_ZeroAddressNeverPrinted ==
  script \in {"deploy", "parse"} => ZeroAddressLines = {}

\* A deployment that printed its native token as ETH and, in the summary, as
\* the zero address.
C20_Witness ==
  /\ script = "deploy" /\ pc = "done" /\ exitCode = 0
  /\ "  Native Token: ETH" \in out
  /\ "  \"nativeToken\": \"0x0000000000000000000000000000000000000000\"," \in out

\* A parse-deployment run that printed the zero address of the event.
C20_WitnessParse ==
  /\ script = "parse" /\ pc = "done" /\ exitCode = 0
  /\ ~IsNull(decodedEvent)
  /\ decodedEvent.args.nativeToken = ZeroAddress
  /\ "  Native Token: 0x0000000000000000000000000000000000000000" \in out

\* The position of the first log of a receipt that is a complete RollupCreated
\* log, 0 if there is none.
FirstMatch(logs) ==
  LET M == {i \in 1..Len(logs) : logs[i] \in {RollupCreatedLog(1), RollupCreatedLog(2)}}
  IN  IF M = {} THEN 0 ELSE CHOOSE i \in M : \A j \in M : i <= j

Refetches == Fetches(calls)

\* C21: once a script has scanned the receipt, the log it accepted is the
\* first one of the receipt that decodes as RollupCreated, the logs before it
\* skipped and the ones after it not looked at: parse-deployment holds the
\* decoding of that log, deploy-orbit found the event and called the SDK for
\* that one log only; with no decoding log nothing is accepted.
C21_FirstDecodingLogAccepted ==
  /\ (script = "parse" /\ pc \in {"write", "done"} /\ ~IsNull(receipt)) =>
       IF FirstMatch(receipt.logs) = 0
       THEN IsNull(decodedEvent) /\ exitCode = 1
       ELSE decodedEvent = decodeEventLog(receipt.logs[FirstMatch(receipt.logs)])
  /\ (script = "deploy" /\ pc \in {"persist", "nodeConfig", "done"}) =>
       IF FirstMatch(receipt.logs) = 0
       THEN IsNull(coreContracts) /\ Refetches = 0
       ELSE /\ "Found RollupCreated event" \in out
            /\ ~IsNull(coreContracts)
            /\ coreContracts.rollup = receipt.logs[FirstMatch(receipt.logs)].topics[2]
            /\ Refetches = 1

\* A deploy-orbit scan whose first log decodes and which accepted nothing: the
\* call made for that log threw, the catch took it for a decode failure.
C21_Witness ==
  /\ script = "deploy" /\ pc = "persist"
  /\ Len(receipt.logs) >= 1 /\ receipt.logs[1] = RollupCreatedLog(1)
  /\ IsNull(coreContracts)
  /\ "Could not parse RollupCreated event" \in out
  /\ Refetches >= 1

\* A call made inside deploy-orbit's scan threw: a log was passed over after
\* its re-fetch, or the re-fetch was made and nothing accepted.
ThrowInScan ==
  /\ script = "deploy" /\ pc \in {"persist", "nodeConfig", "done"}
  /\ Refetches > 1 \/ (IsNull(coreContracts) /\ Refetches >= 1)

\* The same property for the runs in which no call inside the scan threw.
C21_HoldsWithoutThrow == ThrowInScan \/ C21_FirstDecodingLogAccepted

\* C22: a node config written by a run whose PARENT_CHAIN_ID is not Sepolia's
\* has that id and PARENT_CHAIN_RPC in its parent-chain block, the override
\* logged, and every other setting of the block and of its connection as the
\* template gave it.
C22_ParentChainOverridden ==
  (ConfigWritten /\ ParentChainIdOf(env) # SEPOLIA_CHAIN_ID) =>
    LET pc_ == configs[<<"node-config", ChainIdOf(env)>>].parentChain
    IN  /\ pc_.id = ParentChainIdOf(env)
        /\ pc_.connection.url = env.PARENT_CHAIN_RPC
        /\ "Overriding parent chain ID" \in out
        /\ \E t \in ParentChainTemplates(env) :
             /\ DOMAIN pc_ = DOMAIN t \cup {"id"}
             /\ DOMAIN pc_.connection = DOMAIN t.connection
             /\ \A k \in DOMAIN t \ {"connection"} : pc_[k] = t[k]
             /\ \A j \in DOMAIN t.connection \ {"url"} : pc_.connection[j] = t.connection[j]

C22_Witness ==
  /\ ConfigWritten
  /\ env.PARENT_CHAIN_ID = "421614"
  /\ configs[<<"node-config", ChainIdOf(env)>>].parentChain.id = 421614
  /\ "retries" \in DOMAIN configs[<<"node-config", ChainIdOf(env)>>].parentChain.connection
  /\ "blobClient" \in DOMAIN configs[<<"node-config", ChainIdOf(env)>>].parentChain

\* The positions of a request in a request list.
Positions(q, r) == {i \in 1..Len(q) : q[i] = r}

\* The requests and timers of an event list, without their settling.
IsIssued(e) == e \notin {"response", "wake"}

\* C23: the requests of one verifyContract call, in order, once the call has
\* returned: the source lookup first; nothing more when the contract is
\* reported already verified; otherwise the proxy submission second; the
\* status poll only as the request after the 5 s delay after the submission,
\* at most once, and exactly once when the report is verified or pending;
\* the pacing sleep of the loop last.  While the call runs, a submission is
\* issued only after the lookup has settled and a poll only after the 5 s
\* timer has fired.
C23_RequestOrder ==
  /\ (script = "verify" /\ pc = "lookupBody") =>
       requests.requests = <<"getsourcecode", "response">>
  /\ (script = "verify"
        /\ pc \in {"submit", "submitBody", "delay", "poll", "pollBody"}) =>
       SubSeq(requests.requests, 1, 3)
         = <<"getsourcecode", "response", "verifyproxycontract">>
  /\ (script = "verify" /\ pc \in {"poll", "pollBody"}) =>
       requests.requests
         = <<"getsourcecode", "response", "verifyproxycontract", "response",
             "sleep 5000", "wake", "checkproxyverification">>
             \o (IF pc = "pollBody" THEN <<"response">> ELSE <<>>)
  /\ (script = "verify" /\ pc \in {"pace", "verifying"} /\ verifyIdx >= 1) =>
       LET q == SelectSeq(requests.requests, IsIssued)
           polls == Positions(q, "checkproxyverification")
       IN  /\ q[1] = "getsourcecode"
           /\ Positions(q, "getsourcecode") = {1}
           /\ q[Len(q)] = "sleep 2000"
           /\ requests.report = "already verified" =>
                q = <<"getsourcecode", "sleep 2000">>
           /\ requests.report # "already verified" =>
                (q[2] = "verifyproxycontract"
                   /\ Positions(q, "verifyproxycontract") = {2})
           /\ Cardinality(polls) <= 1
           /\ polls \subseteq {4}
           /\ polls # {} => q[3] = "sleep 5000"
           /\ requests.report \in {"verified successfully", "verification pending"} =>
                polls = {4}
           /\ requests.report = "verification response" => polls = {}
           /\ requests.report \in
                {"already verified", "verified successfully", "verification pending",
                 "verification response", "Error verifying"}

\* A contract left pending after its one poll, the run going on.
C23_Witness ==
  /\ script = "verify" /\ pc = "verifying" /\ verifyIdx >= 1
  /\ requests.report = "verification pending"
  /\ requests.requests
       = <<"getsourcecode", "response", "verifyproxycontract", "response",
           "sleep 5000", "wake", "checkproxyverification", "response",
           "sleep 2000", "wake">>
  /\ exitCode = -1

(***************************************************************************)
(* C24: every role of the record's contracts mapping that holds an address *)
(* gets a verification attempt during a verify-contracts run.              *)
(***************************************************************************)
\* The roles of a contracts mapping that hold a contract address.
AddressRoles(c) == {r \in DOMAIN c \ {"deployedAtBlockNumber"} : c[r] # ZeroAddress}

\* The roles whose verifyContract call the run has made so far.
AttemptedRoles == {ContractsToVerify(deployment)[i] : i \in 1..verifyIdx}

\* C24: a verify-contracts run that reaches "Verification Complete" has
\* attempted every role of the record's contracts mapping that holds an
\* address.
C24_EveryRoleAttempted ==
  (script = "verify" /\ pc = "done" /\ "Verification Complete" \in out) =>
    AddressRoles(deployment.contracts) \subseteq AttemptedRoles

\* A completed run on a record written by parse-deployment: six roles
\* attempted, validatorWalletCreator in the mapping and never attempted.
C24_Witness ==
  /\ script = "verify" /\ pc = "done" /\ "Verification Complete" \in out
  /\ verifyIdx = 6
  /\ DOMAIN deployment.contracts =
       {"rollup", "inbox", "outbox", "adminProxy", "sequencerInbox", "bridge",
        "validatorWalletCreator"}
  /\ "validatorWalletCreator" \notin AttemptedRoles

\* What the run does attempt: of the six roles main() lists, exactly those
\* the mapping holds, and no other role of the mapping.
C24_ListedRolesAttempted ==
  (script = "verify" /\ pc = "done" /\ "Verification Complete" \in out) =>
    AttemptedRoles =
      DOMAIN deployment.contracts
        \cap {"rollup", "inbox", "outbox", "bridge", "sequencerInbox", "adminProxy"}

(***************************************************************************)
(* C25: the verification loop is sequential and paced.  While a contract   *)
(* is in hand exactly one thing is awaited, an HTTP request, the reading   *)
(* of its body or a timer, never two; and the lookup of a contract after   *)
(* the first goes                                                          *)
(* out only when the previous verifyContract has returned with its report, *)
(* every request of it has settled and the 2000 ms timer set after it has  *)
(* fired.                                                                  *)
(***************************************************************************)
InVerifyLoop ==
  /\ script = "verify"
  /\ pc \in {"lookup", "lookupBody", "submit", "submitBody", "delay", "poll",
             "pollBody", "pace"}

\* The body reads awaited: one while the run is suspended at response.json().
BodyReads == IF pc \in {"lookupBody", "submitBody", "pollBody"} THEN 1 ELSE 0

OneAwaited ==
  InVerifyLoop =>
    /\ Outstanding(requests.requests) \in {0, 1}
    /\ Outstanding(requests.requests) + BodyReads + Sleeping(requests.requests) = 1
    /\ Outstanding(requests.requests) = 1 <=> pc \in {"lookup", "submit", "poll"}
    /\ BodyReads = 1 =>
         requests.requests[Len(requests.requests)] = "response"

NextLookupAfterPause ==
  (script = "verify" /\ pc = "verifying" /\ pc' = "lookup" /\ verifyIdx > 0) =>
    LET q == requests.requests
    IN  /\ Len(q) >= 2
        /\ SubSeq(q, Len(q) - 1, Len(q)) = <<"sleep 2000", "wake">>
        /\ Outstanding(q) = 0 /\ Sleeping(q) = 0
        /\ requests.report # None
        /\ requests'.requests = <<"getsourcecode">>

C25_SequentialPaced == [](OneAwaited) /\ [][NextLookupAfterPause]_vars

\* The third contract's lookup is the one request outstanding, two contracts
\* and two pauses behind it.
C25_Witness ==
  /\ script = "verify" /\ pc = "lookup" /\ verifyIdx = 2
  /\ requests.requests = <<"getsourcecode">>
  /\ Outstanding(requests.requests) = 1

(***************************************************************************)
(* C26: every persisted deployment record has a non-empty validators list; *)
(* with no VALIDATOR_ADDRESSES supplied the list is the deployer address   *)
(* alone, and with no BATCH_POSTER_ADDRESS supplied the batch poster is    *)
(* the deployer.                                                           *)
(***************************************************************************)
NotSupplied(x) == x = Unset \/ x = ""

C26_ValidatorsAndBatchPoster ==
  \A k \in DOMAIN files :
    /\ Len(files[k].validators) >= 1
    /\ NotSupplied(env.VALIDATOR_ADDRESSES) =>
         files[k].validators = <<privateKeyToAddress(env.PRIVATE_KEY)>>
    /\ NotSupplied(env.BATCH_POSTER_ADDRESS) =>
         files[k].batchPoster = privateKeyToAddress(env.PRIVATE_KEY)

\* A record persisted by a run that was given neither variable.
C26_Witness ==
  /\ DOMAIN files # {}
  /\ env.VALIDATOR_ADDRESSES = Unset /\ env.BATCH_POSTER_ADDRESS = Unset
  /\ \E k \in DOMAIN files :
       /\ files[k].validators = <<files[k].deployer>>
       /\ files[k].batchPoster = files[k].deployer

\* A list of separators only still gives a non-empty list, of blank entries.
C26_BlankEntries ==
  /\ env.VALIDATOR_ADDRESSES = ","
  /\ \E k \in DOMAIN files : files[k].validators = <<"", "">>

\* Supplied addresses are trimmed and kept in order.
C26_SuppliedList ==
  /\ env.VALIDATOR_ADDRESSES = "0xA1, 0xA2" /\ env.BATCH_POSTER_ADDRESS = "0xB1"
  /\ \E k \in DOMAIN files :
       files[k].validators = <<"0xA1", "0xA2">> /\ files[k].batchPoster = "0xB1"

(***************************************************************************)
(* C27: a parse-deployment run that ends on "Transaction receipt not       *)
(* found" or on "RollupCreated event not found" ends with a non-zero       *)
(* status and has written nothing: only the write step of the script       *)
(* touches the deployment files and config/chain-<chainId>.json, that step *)
(* is reached only once the event was found, and a run that reports a miss *)
(* never found it.                                                         *)
(***************************************************************************)
ParseMissReported(o) ==
  \/ "Transaction receipt not found" \in o
  \/ "RollupCreated event not found in transaction logs" \in o

ParseMissStep ==
  (script = "parse" /\ script' = "parse") =>
    /\ pc # "write" => (files' = files /\ configs' = configs)
    /\ pc' = "write" => "Found RollupCreated event" \in out'
    /\ (pc # "done" /\ pc' = "done" /\ ParseMissReported(out')) =>
         /\ exitCode' = 1
         /\ "Found RollupCreated event" \notin out'
         /\ files' = files /\ configs' = configs

C27_MissLeavesFilesAlone == [][ParseMissStep]_vars

\* A run that scanned a receipt and found no RollupCreated log in it, with a
\* deployment file on disk and no chain config.
C27_Witness ==
  /\ script = "parse" /\ pc = "done" /\ exitCode = 1
  /\ "RollupCreated event not found in transaction logs" \in out
  /\ "Receipt found" \in out
  /\ DOMAIN files # {} /\ DOMAIN configs = {}

\* The receipt call returning nothing ends the run the same way.
C27_ReceiptAbsent ==
  /\ script = "parse" /\ pc = "done" /\ exitCode = 1
  /\ "Transaction receipt not found" \in out
  /\ DOMAIN files # {}

\* A receipt call that throws is caught by main().catch: nothing written,
\* status 0.
ParseReceiptThrew ==
  /\ script = "parse" /\ pc = "done" /\ exitCode = ParseCatchExit
  /\ "getTransactionReceipt threw" \in out

(***************************************************************************)
(* C28: when node-config generation starts the deployment record is on     *)
(* disk, and a generation that fails ends the run with status 0, the       *)
(* deployment files as they were and no node-config file created or        *)
(* changed.                                                                *)
(***************************************************************************)
NodeConfigFailStep ==
  (script = "deploy" /\ pc = "nodeConfig") =>
    /\ "Deployment info saved" \in out
    /\ filename \in DOMAIN files
    /\ files[filename] = DeploymentInfo(env, txHash, receipt, coreContracts)
    /\ "Failed to generate node config" \in out' =>
         /\ pc' = "done" /\ exitCode' = 0
         /\ files' = files
         /\ configs' = configs
         /\ "Node configuration saved" \notin out'

C28_NodeConfigFailureNonFatal == [][NodeConfigFailStep]_vars

\* A run whose generation failed while forcing off a setting the template
\* does not have: status 0, the record on disk, no node-config file.
C28_Witness ==
  /\ script = "deploy" /\ pc = "done" /\ exitCode = 0
  /\ {"Adding DA Provider configuration", "Failed to generate node config"}
       \subseteq out
  /\ filename \in DOMAIN files
  /\ files[filename].contracts # EmptyContracts
  /\ <<"node-config", ChainIdOf(env)>> \notin DOMAIN configs

(***************************************************************************)
(* C29: a deploy run that obtained a receipt, whatever its status, ends    *)
(* with status 0 and its record on disk; when no core contracts were       *)
(* resolved, as with a reverted receipt without logs, the record's         *)
(* contracts mapping is empty and the run writes no node-config file; a    *)
(* run writes a node-config file only with core contracts resolved. No     *)
(* step after the receipt reads its status; the one run that ends with     *)
(* another status is the one whose write of the record throws, and it      *)
(* writes nothing.                                                         *)
(***************************************************************************)
ReceiptObtained == script = "deploy" /\ ~IsNull(receipt)

DeployEndsAfterReceipt ==
  (ReceiptObtained /\ pc = "done") =>
    IF RecordWriteFailed
    THEN /\ exitCode = 1
         /\ "Deployment info saved" \notin out
         /\ "writeFileSync node-config" \notin Range(calls)
         /\ ~ConfigWritten
    ELSE /\ exitCode = 0
         /\ filename \in DOMAIN files
         /\ files[filename] = DeploymentInfo(env, txHash, receipt, coreContracts)
         /\ IsNull(coreContracts) =>
              /\ files[filename].contracts = EmptyContracts
              /\ "writeFileSync node-config" \notin Range(calls)
              /\ ~ConfigWritten
         /\ ConfigWritten => ~IsNull(coreContracts)

\* From the receipt on, a step ends the run with status 0, or with status 1
\* when it is the write of the record and that write threw.
StatusNeverRead ==
  (ReceiptObtained /\ pc \in {"scan", "refetch", "persist", "nodeConfig"}) =>
    /\ receipt' = receipt
    /\ pc' = "done" =>
         \/ exitCode' = 0
         \/ exitCode' = 1 /\ pc = "persist" /\ "writeFileSync threw" \in out'

NodeConfigOnlyWithContracts ==
  (ReceiptObtained /\ configs' # configs) =>
    /\ ~IsNull(coreContracts)
    /\ pc = "nodeConfig"

C29_ReceiptStatusIgnored ==
  /\ [](DeployEndsAfterReceipt)
  /\ [][NodeConfigOnlyWithContracts]_vars
  /\ [][StatusNeverRead]_vars

\* A run whose transaction reverted: status 0, a record without contracts,
\* nothing in config/.
C29_Witness ==
  /\ script = "deploy" /\ pc = "done" /\ exitCode = 0
  /\ ~IsNull(receipt)
  /\ receipt.status = "reverted"
  /\ filename \in DOMAIN files
  /\ files[filename].contracts = EmptyContracts
  /\ DOMAIN configs = {}

(***************************************************************************)
(* C30: in a record saved by the rawEventData script, a stored raw payload *)
(* is the topics and data of a log of the receipt whose first topic is the *)
(* RollupCreated topic, and a receipt without such a log gives a record    *)
(* without rawEventData.                                                   *)
(***************************************************************************)
HasRollupCreatedTopic(log) ==
  Len(log.topics) > 0 /\ log.topics[1] = RollupCreatedTopic

C30_RawPayloadIsRollupCreated ==
  (script = "deploy-raw" /\ pc = "done" /\ exitCode = 0) =>
    LET d == files[filename]
        matching == {i \in DOMAIN receipt.logs :
                       HasRollupCreatedTopic(receipt.logs[i])}
    IN  IF "rawEventData" \in DOMAIN d
        THEN \E i \in matching :
               /\ d.rawEventData.topics = receipt.logs[i].topics
               /\ d.rawEventData.data = receipt.logs[i].data
        ELSE matching = {}

\* A saved record whose raw payload is the receipt's first log, a Transfer,
\* while the RollupCreated log further on is left out.
C30_Witness ==
  /\ script = "deploy-raw" /\ pc = "done" /\ exitCode = 0
  /\ receipt.logs = <<UnrelatedLog, RollupCreatedLog(1)>>
  /\ "rawEventData" \in DOMAIN files[filename]
  /\ files[filename].rawEventData.topics = UnrelatedLog.topics
  /\ "Found RollupCreated event" \in out

\* What the script stores: the first log of the receipt, whatever its topic,
\* and nothing only for a receipt without logs.
C30_FirstLogStored ==
  (script = "deploy-raw" /\ pc = "done" /\ exitCode = 0) =>
    IF Len(receipt.logs) = 0
    THEN "rawEventData" \notin DOMAIN files[filename]
    ELSE /\ "rawEventData" \in DOMAIN files[filename]
         /\ files[filename].rawEventData =
              [topics |-> receipt.logs[1].topics, data |-> receipt.logs[1].data]

====
